---------------------------- MODULE Spec2Model ----------------------------
(***************************************************************************)
(* PruneJuice, first revision: the sequential command executor.            *)
(*                                                                         *)
(* One Executor (executor.py) is constructed over a fresh database and a   *)
(* fresh artifact store, a command definition file lies in the project's   *)
(* .prj/commands directory, and execute_command is called once.  Every     *)
(* await of execute_command is a position of the program counter pc.       *)
(*                                                                         *)
(* Strings built with f-strings are sequences of their pieces, so that     *)
(* "the message names X" is a statement about the pieces.  Python's None   *)
(* is the empty sequence <<>> and a present value v is <<v>>.              *)
(***************************************************************************)
EXTENDS Integers, Sequences, FiniteSets, TLC

\* ------------------------------------------------------------------ bounds

\* Size of a command definition: declared arguments plus step occurrences
\* over pre_steps, steps, post_steps and cleanup_on_failure.
MaxTotal == 3

\* ------------------------------------------------------------ input alphabet

\* "cleanup" is the built-in step that clears the session's step state; "a"
\* and "b" stand for any other step name (another built-in, a project script
\* under .prj/steps, or a name that resolves to nothing): what they do is the
\* environment's choice, see StepOutcomes.
StepNames == {"cleanup", "a", "b"}

ArgNames == {"x", "y"}

\* The command whose definition file exists, and a name with no definition.
KnownCommand == "build"

UnknownCommand == "ghost"

CommandNames == {KnownCommand, UnknownCommand}

ProjectName == "proj"

None == <<>>

Some(v) == <<v>>

\* context['event_id'] = None; `if context.get('event_id')` is false for it.
NoEventId == 0

SeqsUpTo(S, n) == UNION {[1..k -> S] : k \in 0..n}

SubSeqOrEmpty(s, m, n) == IF m > n THEN <<>> ELSE SubSeq(s, m, n)

Range(s) == {s[k] : k \in DOMAIN s}

\* ------------------------------------------------------- command definitions

\* CommandArgument: name and required flag (type, default and description are
\* advisory and never read by the executor).
CommandArgument(n, r) == [name |-> n, required |-> r]

\* Declared argument lists: distinct names, x before y.
ArgLists ==
    {<<>>}
    \cup {<<CommandArgument(n, r)>> : n \in ArgNames, r \in BOOLEAN}
    \cup {<<CommandArgument("x", r1), CommandArgument("y", r2)>> :
              r1 \in BOOLEAN, r2 \in BOOLEAN}

\* CommandDefinition: the fields execute_command reads.  t is the sequence of
\* all step occurrences of the definition, cut at i, j, l into the four lists.
CommandDefinition(n, a, t, i, j, l) ==
    [name               |-> n,
     arguments          |-> a,
     pre_steps          |-> SubSeqOrEmpty(t, 1, i),
     steps              |-> SubSeqOrEmpty(t, i + 1, j),
     post_steps         |-> SubSeqOrEmpty(t, j + 1, l),
     cleanup_on_failure |-> SubSeqOrEmpty(t, l + 1, Len(t))]

\* Where a sequence of length n is cut into four consecutive lists.
Cuts(n) == {c \in (0..n) \X (0..n) \X (0..n) : c[1] <= c[2] /\ c[2] <= c[3]}

\* Every definition of size at most MaxTotal.
Definitions ==
    UNION { UNION { { CommandDefinition(KnownCommand, a, t, c[1], c[2], c[3]) :
                        c \in Cuts(Len(t)) }
                  : t \in SeqsUpTo(StepNames, MaxTotal - Len(a)) }
          : a \in {al \in ArgLists : Len(al) <= MaxTotal} }

\* ------------------------------------------------------------------- state

VARIABLES
    cmd_files,       \* .prj/commands/<name>.yaml on disk: name -> definition
    command_cache,   \* CommandLoader._command_cache
    now,             \* the wall clock, in whole seconds
    events,          \* the events table: row id -> row
    artifacts,       \* the artifact store on disk
    step_states,     \* StateManager._step_states
    pc,              \* position inside execute_command
    command_name,    \* execute_command's parameters
    args,
    dry_run,
    command,         \* the loaded definition
    session_id,
    event_id,        \* context['event_id']
    step_index,      \* index of the current step in all_steps
    step_result,     \* (success, output) of the current step
    exc,             \* the exception caught by the outer try, as str(e)
    cleanup_index,   \* index of the next cleanup step
    result,          \* the returned ExecutionResult
    runner_calls,    \* history: invocations of StepExecutor.execute
    db_calls,        \* history: start_event and end_event attempts
    before           \* history: events, artifacts, step_states at the call

executor_vars ==
    <<cmd_files, command_cache, now, events, artifacts, step_states, pc,
      command_name, args, dry_run, command, session_id, event_id,
      step_index, step_result, exc, cleanup_index, result, runner_calls,
      db_calls, before>>

\* One call of StepExecutor.execute, looked at on its own.
VARIABLES
    steps_dir,       \* the script files under .prj/steps
    sx_pc,           \* position inside StepExecutor.execute
    step_name,       \* execute's parameters
    context,         \* the keys of the context dictionary
    timeout,
    script_path,     \* the script the lookup found
    proc,            \* the child process of the script
    step_did,         \* history: what the step did
    step_return,     \* the (success, output) execute returned
    step_raised      \* the exception execute let through to its caller

step_runner_vars ==
    <<steps_dir, sx_pc, step_name, context, timeout, script_path, proc,
      step_did, step_return, step_raised>>

\* The second revision: the project database, the Git repository of the
\* project directory, and the last call made.
VARIABLES
    tables,          \* projects, workspaces, event_log: sequences of rows
    repo,            \* the Git repository, None when there is none
    last_call        \* history: the last call and the tables before it

project_vars == <<tables, repo, last_call>>

\* The tables of both revisions as the SQL engine holds them, for the
\* statements that carry strings.
VARIABLES
    sql_tables,      \* table name -> rows
    last_insert      \* history: the last INSERT and the tables before it

bind_vars == <<sql_tables, last_insert>>

\* A CommandLoader over definition files of both suffixes and templates.
VARIABLES
    project_commands,   \* .prj/commands: <<stem, suffix>> -> content
    template_commands,  \* prunejuice.templates: stem of <stem>.yaml -> content
    loader_cache,       \* CommandLoader._command_cache
    loader_call         \* history: the last call and the cache before it

loader_vars == <<project_commands, template_commands, loader_cache, loader_call>>

\* Several start_event calls gathered against one database file.
VARIABLES
    conc_events,   \* the committed rows of the events table
    conc_pc,       \* where each call is
    conc_lock,     \* the call whose connection holds the write lock, or None
    conc_pending,  \* each call's inserted, uncommitted row and its lastrowid
    conc_ids       \* what each call returned

conc_vars == <<conc_events, conc_pc, conc_lock, conc_pending, conc_ids>>

\* Runs of execute_command on one Executor, as far as the session id and
\* the session directory.
VARIABLES
    sess_clock,   \* the wall clock, in whole seconds
    sess_store,   \* the artifact store on disk
    sess_runs     \* history: each run's project path, session id, and whether
                  \* its session directory was there before the run

session_vars == <<sess_clock, sess_store, sess_runs>>

\* A TmuxManager (second revision) and the processes it runs.
VARIABLES
    tmux_server,   \* TmuxManager.server_name
    tmux_runs,     \* history: the first argument of each subprocess.run call
    tmux_calls     \* history: the calls of TmuxManager methods

tmux_vars == <<tmux_server, tmux_runs, tmux_calls>>

\* The environment of a script step: from the command's environment map to
\* the child process.
VARIABLES
    env_os,        \* os.environ of the prunejuice process
    env_declared,  \* command.environment
    env_context,   \* the context dictionary of the run
    env_pc,        \* position: context, event, script, spawned
    env_child      \* the env argument of create_subprocess_exec

environ_vars == <<env_os, env_declared, env_context, env_pc, env_child>>

\* What lies outside each component: a run of one component leaves the
\* others alone.
outside_executor ==
    <<step_runner_vars, project_vars, bind_vars, loader_vars, conc_vars,
      session_vars, tmux_vars, environ_vars>>

outside_step_runner ==
    <<executor_vars, project_vars, bind_vars, loader_vars, conc_vars,
      session_vars, tmux_vars, environ_vars>>

outside_project ==
    <<executor_vars, step_runner_vars, bind_vars, loader_vars, conc_vars,
      session_vars, tmux_vars, environ_vars>>

outside_bind ==
    <<executor_vars, step_runner_vars, project_vars, loader_vars,
      conc_vars, session_vars, tmux_vars, environ_vars>>

outside_loader ==
    <<executor_vars, step_runner_vars, project_vars, bind_vars, conc_vars,
      session_vars, tmux_vars, environ_vars>>

outside_conc ==
    <<executor_vars, step_runner_vars, project_vars, bind_vars,
      loader_vars, session_vars, tmux_vars, environ_vars>>

outside_session ==
    <<executor_vars, step_runner_vars, project_vars, bind_vars,
      loader_vars, conc_vars, tmux_vars, environ_vars>>

outside_tmux ==
    <<executor_vars, step_runner_vars, project_vars, bind_vars,
      loader_vars, conc_vars, session_vars, environ_vars>>

outside_environ ==
    <<executor_vars, step_runner_vars, project_vars, bind_vars,
      loader_vars, conc_vars, session_vars, tmux_vars>>

vars ==
    <<executor_vars, step_runner_vars, project_vars, bind_vars,
      loader_vars, conc_vars, session_vars, tmux_vars, environ_vars>>

\* ------------------------------------------------------------ command store

\* CommandLoader.load_command: the cache first, then the project's definition
\* file; a definition that is found is cached under the requested name.
load_command(cache, files, name) ==
    IF name \in DOMAIN cache
    THEN [found |-> Some(cache[name]), cache |-> cache]
    ELSE IF name \in DOMAIN files
    THEN [found |-> Some(files[name]), cache |-> (name :> files[name]) @@ cache]
    ELSE [found |-> None, cache |-> cache]

\* ------------------------------------------------------------- step state

\* StateManager.begin_step
begin_step(states, sid, step) ==
    LET session == IF sid \in DOMAIN states THEN states[sid] ELSE <<>>
    IN  (sid :> ((step :> "running") @@ session)) @@ states

\* The update shared by complete_step and fail_step: only a step that the
\* session still holds is updated.
update_step(states, sid, step, status) ==
    IF sid \in DOMAIN states /\ step \in DOMAIN states[sid]
    THEN [states EXCEPT ![sid][step] = status]
    ELSE states

\* A complete_step that leaves the step as begin_step set it.
complete_step_unmarked(states, sid, step) == states

\* StateManager.complete_step
complete_step(states, sid, step) == update_step(states, sid, step, "completed")

\* A fail_step that leaves the step as begin_step set it.
fail_step_unmarked(states, sid, step) == states

\* StateManager.fail_step
fail_step(states, sid, step) == update_step(states, sid, step, "failed")

\* StateManager.get_step_status
get_step_status(states, sid, step) ==
    IF sid \in DOMAIN states /\ step \in DOMAIN states[sid]
    THEN Some(states[sid][step])
    ELSE None

\* StateManager.cleanup_session
cleanup_session(states, sid) ==
    [s \in DOMAIN states \ {sid} |-> states[s]]

\* --------------------------------------------------------- artifact store

\* ArtifactStore.create_session_dir: the directory base/project/session_id
\* with its session.info file.
create_session_dir(store, sid, name, created) ==
    [store EXCEPT
        !.dirs = @ \cup {sid},
        !.info = (sid :> [session |-> sid, command |-> name, created |-> created])
                 @@ @]

\* ArtifactStore.store_content for logs/step-<index>-<step>.log: write_text
\* replaces the file.
store_content(store, sid, index, step, content) ==
    [store EXCEPT
        !.logs = {f \in @ : ~(f.dir = sid /\ f.index = index /\ f.step = step)}
                 \cup {[dir |-> sid, index |-> index, step |-> step,
                        content |-> content]}]

\* ------------------------------------------------------------- database

\* Database.start_event: one new row, status running; the row id is returned.
start_event(table, name, sid) ==
    [table |-> Append(table, [command |-> name, session_id |-> sid,
                              artifacts_path |-> sid, status |-> "running",
                              exit_code |-> None, error_message |-> None,
                              ended |-> FALSE]),
     lastrowid |-> Len(table) + 1]

\* Database.end_event: UPDATE ... WHERE id = ?
end_event(table, id, status, exit_code, error_message) ==
    [r \in DOMAIN table |->
        IF r = id
        THEN [table[r] EXCEPT !.status = status, !.exit_code = Some(exit_code),
                              !.error_message = error_message, !.ended = TRUE]
        ELSE table[r]]

\* ------------------------------------------------------------ step runner

\* StepExecutor.execute, as (success, output).  The built-in cleanup returns
\* its fixed text.  Any other name is another built-in, a script or nothing:
\* it succeeds or fails (a raise, a timeout, a non-zero exit, not found), and a
\* script may print nothing.
StepOutcomes(step) ==
    IF step = "cleanup"
    THEN {[success |-> TRUE, output |-> "Cleanup completed"]}
    ELSE {[success |-> TRUE, output |-> "out"], [success |-> TRUE, output |-> ""],
          [success |-> FALSE, output |-> "err"], [success |-> FALSE, output |-> ""]}

\* What running the step does to the step state: Executor._cleanup calls
\* cleanup_session; no other step touches the StateManager.
StepEffect(step, states, sid) ==
    IF step = "cleanup" THEN cleanup_session(states, sid) ELSE states

\* ------------------------------------------------------------ orchestrator

\* The three lists concatenated with the main steps first.
AllStepsMainFirst(c) == c.steps \o c.pre_steps \o c.post_steps

\* all_steps = command.pre_steps + command.steps + command.post_steps
AllSteps(c) == c.pre_steps \o c.steps \o c.post_steps

\* ', '.join(parts), each part a sequence of pieces
RECURSIVE Join(_)
Join(parts) ==
    IF parts = <<>> THEN <<>>
    ELSE IF Len(parts) = 1 THEN Head(parts)
    ELSE Head(parts) \o <<", ">> \o Join(Tail(parts))

\* A validation that stops at the first missing argument.
validate_arguments_first(arguments, supplied) ==
    LET IsMissing(arg_def) == arg_def.required /\ arg_def.name \notin supplied
        missing == SelectSeq(arguments, IsMissing)
    IN  IF missing = <<>> THEN <<>>
        ELSE << <<"Required argument '", missing[1].name, "' missing">> >>

\* Executor._validate_arguments: one message per required argument that the
\* argument map lacks, in declared order.
validate_arguments(arguments, supplied) ==
    LET IsMissing(arg_def) == arg_def.required /\ arg_def.name \notin supplied
        missing == SelectSeq(arguments, IsMissing)
    IN  [k \in DOMAIN missing |->
            <<"Required argument '", missing[k].name, "' missing">>]

\* A not-found message that leaves the name out.
NotFoundErrorUnnamed(name) == <<"Command not found">>

\* f"Command '{command_name}' not found"
NotFoundError(name) == <<"Command '", name, "' not found">>

\* f"Invalid arguments: {', '.join(validation_errors)}"
InvalidArgumentsError(errors) == <<"Invalid arguments: ">> \o Join(errors)

\* str(StepError(f"Step '{step}' failed: {output}"))
StepErrorText(step, output) == <<"Step '", step, "' failed: ", output>>

\* ExecutionResult
ExecutionResult(success, error, output, artifacts_path) ==
    [success |-> success, error |-> error, output |-> output,
     artifacts_path |-> artifacts_path]

\* f"{project_path.name}-{int(datetime.now().timestamp())}"
SessionId(project, t) == [project |-> project, ts |-> t]

\* Executor._dry_run: the preview text, as the command name, the numbered
\* steps and the cleanup steps it prints.
dry_run_output(c) ==
    [command |-> c.name, steps |-> AllSteps(c), cleanup |-> c.cleanup_on_failure]

\* A context step that ignores dry_run.
AfterContextIgnoringDryRun(dry) == "start"

\* Where execute_command goes after the context is built.
AfterContext(dry) == IF dry THEN "dry" ELSE "start"

\* The for loop over all_steps: the next step, or the end of the loop.
LoopPc(index, c) == IF index <= Len(AllSteps(c)) THEN "begin" ELSE "success"

\* A loop that runs the completed step again.
NextIndexRetry(index) == index

\* enumerate(all_steps): the index after a completed step.
NextIndex(index) == index + 1

\* A start_event inside the outer try: its raise lands in the except branch.
AfterStartEventFatal(raised, c) == IF raised THEN "cleanup" ELSE LoopPc(1, c)

\* start_event sits in a try of its own: whether or not it raised, the step
\* loop is entered.
AfterStartEvent(raised, c) == LoopPc(1, c)

\* A cleanup loop that a failing cleanup step ends.
NextCleanupIndexAbort(index, success, n) == IF success THEN index + 1 ELSE n + 1

\* The cleanup loop: each execute sits in a try of its own and its result is
\* dropped, so the loop goes on to the next cleanup step.  n is the number of
\* cleanup steps.
NextCleanupIndex(index, success, n) == index + 1

\* The arguments of end_event on the success path.
CompletedEvent == [status |-> "completed", exit_code |-> 0, error_message |-> None]

\* A failure path that passes the success path's status and exit code.
FailedEventAsCompleted(e) ==
    [status |-> "completed", exit_code |-> 0, error_message |-> e]

\* The arguments of end_event on the failure path, e being str(e).
FailedEvent(e) == [status |-> "failed", exit_code |-> 1, error_message |-> e]

\* ---------------------------------------------------------------- at rest

\* A component that is not called: its objects as constructed, nothing in
\* flight.
ExecutorAtRest ==
    /\ cmd_files = <<>>
    /\ command_cache = <<>>
    /\ now = 1
    /\ events = <<>>
    /\ artifacts = [dirs |-> {}, info |-> <<>>, logs |-> {}]
    /\ step_states = <<>>
    /\ pc = "idle"
    /\ command_name = None
    /\ args = {}
    /\ dry_run = FALSE
    /\ command = None
    /\ session_id = None
    /\ event_id = NoEventId
    /\ step_index = 1
    /\ step_result = None
    /\ exc = None
    /\ cleanup_index = 1
    /\ result = None
    /\ runner_calls = <<>>
    /\ db_calls = <<>>
    /\ before = None

StepRunnerAtRest ==
    /\ steps_dir = {}
    /\ sx_pc = "idle"
    /\ step_name = None
    /\ context = {}
    /\ timeout = 0
    /\ script_path = None
    /\ proc = "none"
    /\ step_did = "none"
    /\ step_return = None
    /\ step_raised = None

ProjectAtRest ==
    /\ tables = [projects |-> <<>>, workspaces |-> <<>>, event_log |-> <<>>]
    /\ repo = None
    /\ last_call = None

BindAtRest ==
    /\ sql_tables = <<>>
    /\ last_insert = None

LoaderAtRest ==
    /\ project_commands = <<>>
    /\ template_commands = <<>>
    /\ loader_cache = <<>>
    /\ loader_call = None

ConcAtRest ==
    /\ conc_events = <<>>
    /\ conc_pc = <<>>
    /\ conc_lock = None
    /\ conc_pending = <<>>
    /\ conc_ids = <<>>

SessionAtRest ==
    /\ sess_clock = 0
    /\ sess_store = <<>>
    /\ sess_runs = <<>>

TmuxAtRest ==
    /\ tmux_server = ""
    /\ tmux_runs = <<>>
    /\ tmux_calls = <<>>

EnvironAtRest ==
    /\ env_os = <<>>
    /\ env_declared = <<>>
    /\ env_context = <<>>
    /\ env_pc = "idle"
    /\ env_child = None

OutsideExecutorAtRest ==
    StepRunnerAtRest /\ ProjectAtRest /\ BindAtRest /\ LoaderAtRest /\
      ConcAtRest /\ SessionAtRest /\ TmuxAtRest /\ EnvironAtRest

OutsideStepRunnerAtRest ==
    ExecutorAtRest /\ ProjectAtRest /\ BindAtRest /\ LoaderAtRest /\
      ConcAtRest /\ SessionAtRest /\ TmuxAtRest /\ EnvironAtRest

OutsideProjectAtRest ==
    ExecutorAtRest /\ StepRunnerAtRest /\ BindAtRest /\ LoaderAtRest /\
      ConcAtRest /\ SessionAtRest /\ TmuxAtRest /\ EnvironAtRest

OutsideBindAtRest ==
    ExecutorAtRest /\ StepRunnerAtRest /\ ProjectAtRest /\ LoaderAtRest /\
      ConcAtRest /\ SessionAtRest /\ TmuxAtRest /\ EnvironAtRest

OutsideLoaderAtRest ==
    ExecutorAtRest /\ StepRunnerAtRest /\ ProjectAtRest /\ BindAtRest /\
      ConcAtRest /\ SessionAtRest /\ TmuxAtRest /\ EnvironAtRest

OutsideConcAtRest ==
    ExecutorAtRest /\ StepRunnerAtRest /\ ProjectAtRest /\ BindAtRest /\
      LoaderAtRest /\ SessionAtRest /\ TmuxAtRest /\ EnvironAtRest

OutsideSessionAtRest ==
    ExecutorAtRest /\ StepRunnerAtRest /\ ProjectAtRest /\ BindAtRest /\
      LoaderAtRest /\ ConcAtRest /\ TmuxAtRest /\ EnvironAtRest

OutsideTmuxAtRest ==
    ExecutorAtRest /\ StepRunnerAtRest /\ ProjectAtRest /\ BindAtRest /\
      LoaderAtRest /\ ConcAtRest /\ SessionAtRest /\ EnvironAtRest

OutsideEnvironAtRest ==
    ExecutorAtRest /\ StepRunnerAtRest /\ ProjectAtRest /\ BindAtRest /\
      LoaderAtRest /\ ConcAtRest /\ SessionAtRest /\ TmuxAtRest

\* ------------------------------------------------------------------- Init

\* The fixtures of tests/conftest.py: a new Executor over an empty database
\* and an empty artifact store, and a project whose .prj/commands holds one
\* definition file.
Init ==
    /\ cmd_files \in {KnownCommand :> d : d \in Definitions}
    /\ command_cache = <<>>
    /\ now = 1
    /\ events = <<>>
    /\ artifacts = [dirs |-> {}, info |-> <<>>, logs |-> {}]
    /\ step_states = <<>>
    /\ pc = "idle"
    /\ command_name = None
    /\ args = {}
    /\ dry_run = FALSE
    /\ command = None
    /\ session_id = None
    /\ event_id = NoEventId
    /\ step_index = 1
    /\ step_result = None
    /\ exc = None
    /\ cleanup_index = 1
    /\ result = None
    /\ runner_calls = <<>>
    /\ db_calls = <<>>
    /\ before = None
    /\ OutsideExecutorAtRest

\* ---------------------------------------------------------------- actions

\* The caller invokes execute_command(command_name, project_path, args,
\* dry_run).  The argument map holds some of the arguments the command
\* declares.
Call ==
    /\ UNCHANGED outside_executor
    /\ pc = "idle"
    /\ \E name \in CommandNames, dry \in BOOLEAN :
         \E supplied \in SUBSET (IF name \in DOMAIN cmd_files
                                 THEN {ad.name : ad \in Range(cmd_files[name].arguments)}
                                 ELSE {}) :
            /\ command_name' = Some(name)
            /\ args' = supplied
            /\ dry_run' = dry
    /\ before' = Some([events |-> events, artifacts |-> artifacts,
                       step_states |-> step_states])
    /\ pc' = "load"
    /\ UNCHANGED <<cmd_files, command_cache, now, events, artifacts, step_states,
                   command, session_id, event_id, step_index, step_result, exc,
                   cleanup_index, result, runner_calls, db_calls>>

\* db.initialize() (the schema, no row), then load_command; an unknown name
\* returns the not-found result.
LoadCommand ==
    /\ UNCHANGED outside_executor
    /\ pc = "load"
    /\ LET loaded == load_command(command_cache, cmd_files, command_name[1])
       IN  /\ command_cache' = loaded.cache
           /\ command' = loaded.found
           /\ IF loaded.found = None
              THEN /\ result' = Some(ExecutionResult(FALSE,
                                        Some(NotFoundError(command_name[1])),
                                        None, None))
                   /\ pc' = "done"
              ELSE /\ result' = result
                   /\ pc' = "validate"
    /\ UNCHANGED <<cmd_files, now, events, artifacts, step_states, command_name,
                   args, dry_run, session_id, event_id, step_index, step_result,
                   exc, cleanup_index, runner_calls, db_calls, before>>

\* _validate_arguments; any error returns the invalid-arguments result.
ValidateArguments ==
    /\ UNCHANGED outside_executor
    /\ pc = "validate"
    /\ LET validation_errors == validate_arguments(command[1].arguments, args)
       IN  IF validation_errors # <<>>
           THEN /\ result' = Some(ExecutionResult(FALSE,
                                     Some(InvalidArgumentsError(validation_errors)),
                                     None, None))
                /\ pc' = "done"
           ELSE /\ result' = result
                /\ pc' = "prepare"
    /\ UNCHANGED <<cmd_files, command_cache, now, events, artifacts, step_states,
                   command_name, args, dry_run, command, session_id, event_id,
                   step_index, step_result, exc, cleanup_index, runner_calls,
                   db_calls, before>>

\* The session id, the session directory and the context.
CreateContext ==
    /\ UNCHANGED outside_executor
    /\ pc = "prepare"
    /\ LET sid == SessionId(ProjectName, now)
       IN  /\ session_id' = Some(sid)
           /\ artifacts' = create_session_dir(artifacts, sid, command_name[1], now)
    /\ pc' = AfterContext(dry_run)
    /\ UNCHANGED <<cmd_files, command_cache, now, events, step_states,
                   command_name, args, dry_run, command, event_id, step_index,
                   step_result, exc, cleanup_index, result, runner_calls,
                   db_calls, before>>

\* if dry_run: return self._dry_run(command, context)
DryRun ==
    /\ UNCHANGED outside_executor
    /\ pc = "dry"
    /\ result' = Some(ExecutionResult(TRUE, None, Some(dry_run_output(command[1])),
                                      None))
    /\ pc' = "done"
    /\ UNCHANGED <<cmd_files, command_cache, now, events, artifacts, step_states,
                   command_name, args, dry_run, command, session_id, event_id,
                   step_index, step_result, exc, cleanup_index, runner_calls,
                   db_calls, before>>

\* db.start_event in its try: the write succeeds and gives the row id, or it
\* raises, a warning is logged and the event id is None.
StartEvent ==
    /\ UNCHANGED outside_executor
    /\ pc = "start"
    /\ \E raises \in BOOLEAN :
         LET started == start_event(events, command_name[1], session_id[1])
         IN  /\ events' = IF raises THEN events ELSE started.table
             /\ event_id' = IF raises THEN NoEventId ELSE started.lastrowid
             /\ db_calls' = Append(db_calls,
                               [op |-> "start_event",
                                event_id |-> IF raises THEN NoEventId
                                             ELSE started.lastrowid,
                                status |-> "running", exit_code |-> None,
                                error_message |-> None, raised |-> raises])
    /\ step_index' = 1
    /\ pc' = AfterStartEvent(event_id' = NoEventId, command[1])
    /\ UNCHANGED <<cmd_files, command_cache, now, artifacts, step_states,
                   command_name, args, dry_run, command, session_id, step_result,
                   exc, cleanup_index, result, runner_calls, before>>

\* await self.state.begin_step(session_id, step)
BeginStep ==
    /\ UNCHANGED outside_executor
    /\ pc = "begin"
    /\ step_states' = begin_step(step_states, session_id[1],
                                 AllSteps(command[1])[step_index])
    /\ pc' = "exec"
    /\ UNCHANGED <<cmd_files, command_cache, now, events, artifacts,
                   command_name, args, dry_run, command, session_id, event_id,
                   step_index, step_result, exc, cleanup_index, result,
                   runner_calls, db_calls, before>>

\* success, output = await self.step_executor.execute(step, context, timeout)
ExecuteStep ==
    /\ UNCHANGED outside_executor
    /\ pc = "exec"
    /\ LET step == AllSteps(command[1])[step_index]
       IN  /\ \E outcome \in StepOutcomes(step) :
                /\ step_result' = Some(outcome)
                /\ runner_calls' = Append(runner_calls,
                                      [phase |-> "run", index |-> step_index,
                                       step |-> step, success |-> outcome.success])
           /\ step_states' = StepEffect(step, step_states, session_id[1])
    /\ pc' = "finish"
    /\ UNCHANGED <<cmd_files, command_cache, now, events, artifacts,
                   command_name, args, dry_run, command, session_id, event_id,
                   step_index, exc, cleanup_index, result, db_calls, before>>

\* The rest of the loop body: a non-empty output is stored as the step log
\* (the write may raise, which leaves the loop for the except branch), then
\* the step is marked completed and the loop goes on, or it is marked failed
\* and StepError is raised.
FinishStep ==
    /\ UNCHANGED outside_executor
    /\ pc = "finish"
    /\ LET step == AllSteps(command[1])[step_index]
           success == step_result[1].success
           output == step_result[1].output
       IN  \E raises \in {FALSE} \cup {output # ""} :
             IF raises
             THEN /\ exc' = Some(<<"OSError">>)
                  /\ pc' = "cleanup"
                  /\ UNCHANGED <<artifacts, step_states, step_index>>
             ELSE /\ artifacts' = IF output # ""
                                  THEN store_content(artifacts, session_id[1],
                                                     step_index, step, output)
                                  ELSE artifacts
                  /\ IF success
                     THEN /\ step_states' = complete_step(step_states,
                                                          session_id[1], step)
                          /\ step_index' = NextIndex(step_index)
                          /\ pc' = LoopPc(NextIndex(step_index), command[1])
                          /\ exc' = exc
                     ELSE /\ step_states' = fail_step(step_states,
                                                      session_id[1], step)
                          /\ step_index' = step_index
                          /\ pc' = "cleanup"
                          /\ exc' = Some(StepErrorText(step, output))
    /\ step_result' = None
    /\ cleanup_index' = 1
    /\ UNCHANGED <<cmd_files, command_cache, now, events, command_name, args,
                   dry_run, command, session_id, event_id, result, runner_calls,
                   db_calls, before>>

\* The end of the try body: end_event(event_id, "completed", 0) if an event
\* was started (a raise is logged), and the success result.
MarkSuccess ==
    /\ UNCHANGED outside_executor
    /\ pc = "success"
    /\ IF event_id # NoEventId
       THEN \E raises \in BOOLEAN :
              /\ events' = IF raises THEN events
                           ELSE end_event(events, event_id, CompletedEvent.status,
                                          CompletedEvent.exit_code,
                                          CompletedEvent.error_message)
              /\ db_calls' = Append(db_calls,
                                [op |-> "end_event", event_id |-> event_id,
                                 status |-> CompletedEvent.status,
                                 exit_code |-> Some(CompletedEvent.exit_code),
                                 error_message |-> CompletedEvent.error_message,
                                 raised |-> raises])
       ELSE UNCHANGED <<events, db_calls>>
    /\ result' = Some(ExecutionResult(TRUE, None, None, session_id))
    /\ pc' = "done"
    /\ UNCHANGED <<cmd_files, command_cache, now, artifacts, step_states,
                   command_name, args, dry_run, command, session_id, event_id,
                   step_index, step_result, exc, cleanup_index, runner_calls,
                   before>>

\* One turn of the cleanup loop of the except branch: the step runs with the
\* fixed timeout and whatever it reports is dropped.
CleanupStep ==
    /\ UNCHANGED outside_executor
    /\ pc = "cleanup"
    /\ cleanup_index <= Len(command[1].cleanup_on_failure)
    /\ LET step == command[1].cleanup_on_failure[cleanup_index]
       IN  /\ \E outcome \in StepOutcomes(step) :
                /\ runner_calls' = Append(runner_calls,
                                      [phase |-> "cleanup", index |-> cleanup_index,
                                       step |-> step, success |-> outcome.success])
                /\ cleanup_index' = NextCleanupIndex(cleanup_index, outcome.success,
                                        Len(command[1].cleanup_on_failure))
           /\ step_states' = StepEffect(step, step_states, session_id[1])
    /\ UNCHANGED <<cmd_files, command_cache, now, events, artifacts,
                   command_name, args, dry_run, command, session_id, event_id,
                   step_index, step_result, exc, result, db_calls, before, pc>>

\* After the cleanup loop: end_event(event_id, "failed", 1, str(e)) if an
\* event was started (a raise is logged), and the failure result.
MarkFailure ==
    /\ UNCHANGED outside_executor
    /\ pc = "cleanup"
    /\ cleanup_index > Len(command[1].cleanup_on_failure)
    /\ IF event_id # NoEventId
       THEN \E raises \in BOOLEAN :
              /\ events' = IF raises THEN events
                           ELSE end_event(events, event_id, FailedEvent(exc).status,
                                          FailedEvent(exc).exit_code,
                                          FailedEvent(exc).error_message)
              /\ db_calls' = Append(db_calls,
                                [op |-> "end_event", event_id |-> event_id,
                                 status |-> FailedEvent(exc).status,
                                 exit_code |-> Some(FailedEvent(exc).exit_code),
                                 error_message |-> FailedEvent(exc).error_message,
                                 raised |-> raises])
       ELSE UNCHANGED <<events, db_calls>>
    /\ result' = Some(ExecutionResult(FALSE, exc, None, session_id))
    /\ pc' = "done"
    /\ UNCHANGED <<cmd_files, command_cache, now, artifacts, step_states,
                   command_name, args, dry_run, command, session_id, event_id,
                   step_index, step_result, exc, cleanup_index, runner_calls,
                   before>>

Next ==
    \/ Call
    \/ LoadCommand
    \/ ValidateArguments
    \/ CreateContext
    \/ DryRun
    \/ StartEvent
    \/ BeginStep
    \/ ExecuteStep
    \/ FinishStep
    \/ MarkSuccess
    \/ CleanupStep
    \/ MarkFailure

Spec == Init /\ [][Next]_vars

\* ------------------------------------------------------------- step runner

\* The registry Executor.__init__ hands to the StepExecutor.
builtin_steps ==
    {"setup-environment", "validate-prerequisites", "create-worktree",
     "start-session", "gather-context", "store-artifacts", "cleanup"}

\* Names of project scripts: none of them is in the registry.
ScriptNames == {"lint", "deploy"}

\* step_paths, in the order execute tries them.
StepSuffixes == <<".py", ".sh">>

ScriptFiles == {<<n, StepSuffixes[k]>> : n \in ScriptNames, k \in DOMAIN StepSuffixes}

\* execute's default timeout.
DefaultTimeout == 300

\* str(e) of an exception raised by a built-in step or by the spawn.
ExceptionText == "boom"

StepOutput(success, output) == [success |-> success, output |-> output]

StepTimedOut(step, t) == <<"Step '", step, "' timed out after ", t, "s">>

BuiltinFailed(step, e) == <<"Step '", step, "' failed: ", e>>

StepNotFound(step) == <<"Step '", step, "' not found">>

ScriptTimedOut(t) == <<"Script timed out after ", t, "s">>

ScriptFailed(e) == <<"Script execution failed: ", e>>

\* for step_path in step_paths: if step_path.exists(): the first one found.
FoundScript(dir, step) ==
    LET found == {k \in DOMAIN StepSuffixes : <<step, StepSuffixes[k]>> \in dir}
    IN  IF found = {} THEN None
        ELSE Some(<<step, StepSuffixes[CHOOSE k \in found : \A j \in found : k <= j]>>)

\* A StepExecutor over the registry, and a project whose .prj/steps holds
\* some scripts.
StepRunnerInit ==
    /\ steps_dir \in SUBSET ScriptFiles
    /\ sx_pc = "idle"
    /\ step_name = None
    /\ context = {}
    /\ timeout = 0
    /\ script_path = None
    /\ proc = "none"
    /\ step_did = "none"
    /\ step_return = None
    /\ step_raised = None
    /\ OutsideStepRunnerAtRest

\* execute(step_name, context, timeout): the registry test.  The context is
\* any dictionary; what matters below is whether it has 'project_path'.
Execute ==
    /\ sx_pc = "idle"
    /\ \E name \in builtin_steps \cup ScriptNames, keys \in SUBSET {"project_path"} :
         /\ step_name' = Some(name)
         /\ context' = keys
         /\ sx_pc' = IF name \in builtin_steps THEN "builtin" ELSE "lookup"
    /\ timeout' = DefaultTimeout
    /\ UNCHANGED <<steps_dir, script_path, proc, step_did, step_return, step_raised>>
    /\ UNCHANGED outside_step_runner

\* The built-in branch, all of it inside the try: the coroutine returns,
\* raises an Exception, or wait_for gives up.
ExecuteBuiltin ==
    /\ sx_pc = "builtin"
    /\ \E did \in {"returned", "threw", "timeout"} :
         /\ step_did' = did
         /\ step_return' =
              Some(CASE did = "returned" -> StepOutput(TRUE, <<"result">>)
                     [] did = "timeout" ->
                          StepOutput(FALSE, StepTimedOut(step_name[1], timeout))
                     [] did = "threw" ->
                          StepOutput(FALSE, BuiltinFailed(step_name[1], ExceptionText)))
    /\ sx_pc' = "returned"
    /\ UNCHANGED <<steps_dir, step_name, context, timeout, script_path, proc,
                   step_raised>>
    /\ UNCHANGED outside_step_runner

\* The else branch, outside any try.  context['project_path'] raises KeyError
\* when the key is absent, and Path.exists() lets a PermissionError through
\* (Python up to 3.12) when .prj/steps may not be searched.
LookupScript ==
    /\ sx_pc = "lookup"
    /\ IF "project_path" \notin context
       THEN /\ step_raised' = Some("KeyError")
            /\ step_did' = "lookup-raised"
            /\ sx_pc' = "raised"
            /\ UNCHANGED <<script_path, step_return>>
       ELSE \E searchable \in BOOLEAN :
              IF ~searchable
              THEN /\ step_raised' = Some("PermissionError")
                   /\ step_did' = "lookup-raised"
                   /\ sx_pc' = "raised"
                   /\ UNCHANGED <<script_path, step_return>>
              ELSE LET found == FoundScript(steps_dir, step_name[1])
                   IN  IF found # None
                       THEN /\ script_path' = found
                            /\ sx_pc' = "spawn"
                            /\ UNCHANGED <<step_did, step_return, step_raised>>
                       ELSE /\ step_return' =
                                 Some(StepOutput(FALSE, StepNotFound(step_name[1])))
                            /\ step_did' = "unresolved"
                            /\ sx_pc' = "returned"
                            /\ UNCHANGED <<script_path, step_raised>>
    /\ UNCHANGED <<steps_dir, step_name, context, timeout, proc>>
    /\ UNCHANGED outside_step_runner

\* _execute_script up to create_subprocess_exec: the child starts, or the
\* spawn raises (no interpreter on the PATH) inside the try.
SpawnScript ==
    /\ sx_pc = "spawn"
    /\ \E spawned \in BOOLEAN :
         IF spawned
         THEN /\ proc' = "running"
              /\ sx_pc' = "wait"
              /\ UNCHANGED <<step_did, step_return>>
         ELSE /\ step_return' = Some(StepOutput(FALSE, ScriptFailed(ExceptionText)))
              /\ step_did' = "threw"
              /\ sx_pc' = "returned"
              /\ proc' = proc
    /\ UNCHANGED <<steps_dir, step_name, context, timeout, script_path, step_raised>>
    /\ UNCHANGED outside_step_runner

\* The child process ends by itself, with exit status 0 or 1; it may do so
\* while execute waits for it or after execute has returned.
ChildExits ==
    /\ proc = "running"
    /\ \E status \in {"exited 0", "exited 1"} : proc' = status
    /\ UNCHANGED <<steps_dir, sx_pc, step_name, context, timeout, script_path,
                   step_did, step_return, step_raised>>
    /\ UNCHANGED outside_step_runner

\* proc.communicate() returns within the timeout:
\* return proc.returncode == 0, stdout.decode().
Communicate ==
    /\ sx_pc = "wait"
    /\ proc \in {"exited 0", "exited 1"}
    /\ step_return' = Some(StepOutput(proc = "exited 0", <<"stdout">>))
    /\ step_did' = "exited"
    /\ sx_pc' = "returned"
    /\ UNCHANGED <<steps_dir, step_name, context, timeout, script_path, proc,
                   step_raised>>
    /\ UNCHANGED outside_step_runner

\* wait_for gives up on communicate(): except asyncio.TimeoutError returns
\* the message.  Nothing in the handler kills or waits for the child.
ScriptTimeout ==
    /\ sx_pc = "wait"
    /\ proc = "running"
    /\ step_return' = Some(StepOutput(FALSE, ScriptTimedOut(timeout)))
    /\ step_did' = "timeout"
    /\ sx_pc' = "returned"
    /\ UNCHANGED <<steps_dir, step_name, context, timeout, script_path, proc,
                   step_raised>>
    /\ UNCHANGED outside_step_runner

StepRunnerNext ==
    \/ Execute
    \/ ExecuteBuiltin
    \/ LookupScript
    \/ SpawnScript
    \/ ChildExits
    \/ Communicate
    \/ ScriptTimeout

StepRunnerSpec == StepRunnerInit /\ [][StepRunnerNext]_vars

\* ------------------------------------------- second revision: the database

\* Total number of rows over the three tables.
MaxRows == 5

\* Readings of the clock and explicit timestamps: ISO strings of one format,
\* which SQLite orders as text and so by time.
Timestamps == {1, 2}

EmptyTables == [projects |-> <<>>, workspaces |-> <<>>, event_log |-> <<>>]

\* Row ids are INTEGER PRIMARY KEYs and no row is ever deleted: the id of a
\* row is its position.
RowIds(table) == DOMAIN table

Rows(db) == Len(db.projects) + Len(db.workspaces) + Len(db.event_log)

connection_without_pragma == [foreign_keys |-> FALSE]

\* Database.connection: conn.execute("PRAGMA foreign_keys = ON").
connection == [foreign_keys |-> TRUE]

\* A REFERENCES column of schema.sql under a connection: with enforcement on
\* the value is NULL or the id of a row of the referenced table.
references(conn, id, table) ==
    ~conn.foreign_keys \/ id = None \/ id[1] \in RowIds(table)

Inserted(db, id) == [db |-> db, lastrowid |-> Some(id), raised |-> None]

IntegrityError(db) ==
    [db |-> db, lastrowid |-> None, raised |-> Some("IntegrityError")]

insert_project(db, name, git_init_branch) ==
    Inserted([db EXCEPT !.projects =
                 Append(@, [name |-> name, git_init_branch |-> git_init_branch])],
             Len(db.projects) + 1)

insert_workspace(db, name, slug, project_id, path, git_branch, git_origin_branch) ==
    IF references(connection, Some(project_id), db.projects)
    THEN Inserted([db EXCEPT !.workspaces =
                      Append(@, [name |-> name, slug |-> slug,
                                 project_id |-> project_id, path |-> path,
                                 git_branch |-> git_branch,
                                 git_origin_branch |-> git_origin_branch])],
                  Len(db.workspaces) + 1)
    ELSE IntegrityError(db)

insert_event(db, action, project_id, status, workspace_id, timestamp) ==
    IF /\ references(connection, Some(project_id), db.projects)
       /\ references(connection, workspace_id, db.workspaces)
    THEN Inserted([db EXCEPT !.event_log =
                      Append(@, [action |-> action, project_id |-> project_id,
                                 workspace_id |-> workspace_id,
                                 status |-> status, timestamp |-> timestamp])],
                  Len(db.event_log) + 1)
    ELSE IntegrityError(db)

\* Event(id=row[0], ...) of a fetched row.
Event(id, row) ==
    [id |-> id, action |-> row.action, project_id |-> row.project_id,
     workspace_id |-> row.workspace_id, timestamp |-> row.timestamp,
     status |-> row.status]

timestamp_asc(a, b) == a.timestamp <= b.timestamp

\* ORDER BY timestamp DESC: a comes no later than b in the result.
timestamp_desc(a, b) == a.timestamp >= b.timestamp

\* WHERE project_id = ? ORDER BY timestamp DESC: every result the engine may
\* give; rows of equal timestamp come in an order SQL does not fix.
get_events_by_project_id(db, project_id) ==
    LET ids == {k \in RowIds(db.event_log) : db.event_log[k].project_id = project_id}
        n == Cardinality(ids)
        orders == {s \in [1..n -> ids] :
                      /\ \A j, k \in 1..n : j # k => s[j] # s[k]
                      /\ \A k \in 1..(n - 1) :
                            timestamp_desc(db.event_log[s[k]], db.event_log[s[k + 1]])}
    IN  {[k \in 1..n |-> Event(s[k], db.event_log[s[k]])] : s \in orders}

\* ------------------------------------------------ second revision: git

\* The repository at the project path: None when the path is in no Git
\* repository, else its current branch (None with a detached HEAD) and its
\* refs (empty before the first commit).
RepoStates ==
    {None} \cup {Some([head |-> h, refs |-> r, worktrees |-> {}]) :
                    h \in {None, Some("main")}, r \in {{}, {"main"}}}

is_git_repository(r) == r # None

get_current_branch(r) == IF r = None THEN None ELSE r[1].head

\* GitManager.create_worktree with worktree_path = worktree_dir / branch_name.
create_worktree(r, worktree_dir, branch_name, base_branch) ==
    IF r = None
    THEN [status |-> "failed", output |-> <<"Repository not initialized">>]
    ELSE IF base_branch \notin r[1].refs
    THEN [status |-> "failed",
          output |-> <<"Base branch '", base_branch, "' does not exist">>]
    ELSE IF branch_name \in r[1].refs
    THEN [status |-> "failed",
          output |-> <<"Failed to create worktree: ", "GitCommandError">>]
    ELSE [status |-> "success", output |-> worktree_dir \o <<"/", branch_name>>]

\* git worktree add -b branch_name worktree_path base_branch: the repository
\* has the new branch, forked from base_branch and checked out at the path.
worktree_added(r, worktree_dir, branch_name, base_branch) ==
    Some([r[1] EXCEPT
             !.refs = @ \cup {branch_name},
             !.worktrees = @ \cup {[path |-> worktree_dir \o <<"/", branch_name>>,
                                    branch |-> branch_name,
                                    base |-> base_branch]}])

\* The directory of the project, and cli.init's worktree_path = path /
\* ".worktrees".
ProjectPath == "/proj"

project_worktree_path == <<ProjectPath, "/", ".worktrees">>

\* slugify on the names used here.
WorkspaceNames == {"Feat X", "fix"}

slugify(name) == CASE name = "Feat X" -> "feat-x" [] name = "fix" -> "fix"

\* -------------------------------------------- second revision: handlers

init_has_workspace_never(git_init_branch) == FALSE

\* if git_init_branch: the initial workspace is inserted.
init_has_workspace(git_init_branch) == git_init_branch # None

\* A write that the engine refuses (disk full, database locked): nothing is
\* written and sqlite3.OperationalError is raised.
OperationalError(db) ==
    [db |-> db, lastrowid |-> None, raised |-> Some("OperationalError")]

\* The k-th database write of an operation, each in its own connection and
\* transaction: it fails when fault = k (0: no write fails).
attempt(fault, k, db, written) ==
    IF fault = k THEN OperationalError(db) ELSE written

\* cli.init in a directory whose repository is r; t1 and t2 are the clock's
\* readings at the two insert_event calls.  Any exception of the writes is
\* caught and the command exits with 1.
init_writes(db, r, name, t1, t2, fault) ==
    LET git_init_branch == IF is_git_repository(r) THEN get_current_branch(r)
                           ELSE None
        p == attempt(fault, 1, db, insert_project(db, name, git_init_branch))
        project_id == p.lastrowid[1]
        e == attempt(fault, 2, p.db,
                     insert_event(p.db, "project-initialized", project_id,
                                  "success", None, t1))
        w == attempt(fault, 3, e.db,
                     insert_workspace(e.db, "main", "main", project_id,
                                      <<ProjectPath>>, git_init_branch[1],
                                      <<"origin/", git_init_branch[1]>>))
        c == attempt(fault, 4, w.db,
                     insert_event(w.db, "workspace-created", project_id,
                                  "success", w.lastrowid, t2))
    IN  IF p.raised # None THEN [db |-> p.db, exit_code |-> 1]
        ELSE IF e.raised # None THEN [db |-> e.db, exit_code |-> 1]
        ELSE IF ~init_has_workspace(git_init_branch)
        THEN [db |-> e.db, exit_code |-> 0]
        ELSE IF w.raised # None THEN [db |-> w.db, exit_code |-> 1]
        ELSE IF c.raised # None THEN [db |-> c.db, exit_code |-> 1]
        ELSE [db |-> c.db, exit_code |-> 0]

\* cli.init with every write succeeding.
init(db, r, name, t1, t2) == init_writes(db, r, name, t1, t2, 0)

branch_or_topic(branch_name, workspace_slug) ==
    IF branch_name # None THEN branch_name[1] ELSE "topic"

\* actual_branch_name = branch_name or workspace_slug
branch_or(branch_name, workspace_slug) ==
    IF branch_name # None THEN branch_name[1] ELSE workspace_slug

Outcome(db, r, worktree_result, returned, raised) ==
    [db |-> db, repo |-> r, worktree |-> worktree_result.status,
     returned |-> returned, raised |-> raised]

\* WorkspaceService.create_workspace for the project project_id.
create_workspace_writes(db, r, project_id, name, branch_name, base_branch, t, fault) ==
    LET workspace_slug == slugify(name)
        actual_branch_name == branch_or(branch_name, workspace_slug)
        git_base == IF base_branch # None THEN base_branch[1] ELSE "main"
        worktree_result ==
            create_worktree(r, project_worktree_path, actual_branch_name, git_base)
        new_worktree_path == worktree_result.output
        git_origin_branch == IF base_branch # None THEN <<base_branch[1]>> ELSE <<>>
    IN  IF worktree_result.status # "success"
        THEN \* logger.error(worktree_result["message"])
             IF "message" \in DOMAIN worktree_result
             THEN Outcome(db, r, worktree_result, None, None)
             ELSE Outcome(db, r, worktree_result, None, Some("KeyError"))
        ELSE LET w == attempt(fault, 1, db,
                              insert_workspace(db, name, workspace_slug,
                                               project_id, new_worktree_path,
                                               actual_branch_name,
                                               git_origin_branch))
                 added == worktree_added(r, project_worktree_path,
                                         actual_branch_name, git_base)
             IN  IF w.raised # None
                 THEN Outcome(db, added, worktree_result, None, w.raised)
                 ELSE LET e == attempt(fault, 2, w.db,
                                       insert_event(w.db, "workspace-created",
                                                    project_id, "success",
                                                    w.lastrowid, t))
                      IN  IF e.raised # None
                          THEN Outcome(e.db, added, worktree_result, None,
                                       e.raised)
                          ELSE Outcome(e.db, added, worktree_result,
                                  Some([id |-> w.lastrowid[1], name |-> name,
                                        slug |-> workspace_slug,
                                        project_id |-> project_id,
                                        path |-> new_worktree_path,
                                        git_branch |-> actual_branch_name,
                                        git_origin_branch |-> git_origin_branch]),
                                  None)

\* create_workspace with every write succeeding.
create_workspace(db, r, project_id, name, branch_name, base_branch, t) ==
    create_workspace_writes(db, r, project_id, name, branch_name, base_branch,
                            t, 0)

\* The methods of the Database class.
DatabaseMethods ==
    {"connection", "initialize", "insert_event", "insert_project",
     "insert_workspace", "get_project_by_path", "get_workspaces_by_project_id",
     "get_events_by_project_id"}

\* self.db.<method>(...): an AttributeError for a name the class does not
\* define, else one of the method's results.
db_call(method, results) ==
    IF method \in DatabaseMethods
    THEN results
    ELSE {[returned |-> None, raised |-> Some("AttributeError")]}

\* EventService.list_events(workspace) of the service of project project_id.
list_events(db, project_id, workspace) ==
    IF workspace # None
    THEN IF workspace[1].id = None
         THEN {[returned |-> None, raised |-> Some("ValueError")]}
         ELSE db_call("get_events_by_workspace_id", {})
    ELSE db_call("get_events_by_project_id",
                 {[returned |-> Some(rows), raised |-> None] :
                     rows \in get_events_by_project_id(db, project_id)})

\* The record of a call: what was asked, what the Git collaborator answered
\* (if it was asked), what came back, and the tables as they were before it.
CallRecord(op, project_id, worktree, returned, raised) ==
    Some([op |-> op, project_id |-> project_id, worktree |-> worktree,
          returned |-> returned, raised |-> raised, before |-> tables])

\* A new database (initialize() applied the schema) in a directory that is
\* or is not inside a Git repository.
ProjectInit ==
    /\ tables = EmptyTables
    /\ repo \in RepoStates
    /\ last_call = None
    /\ OutsideProjectAtRest

InsertProject ==
    /\ Rows(tables) < MaxRows
    /\ LET r == insert_project(tables, "proj", None)
       IN  /\ tables' = r.db
           /\ last_call' = CallRecord("insert_project", 0, "", r.lastrowid, r.raised)
    /\ UNCHANGED repo
    /\ UNCHANGED outside_project

\* insert_workspace with the id of a project or with an id no project has.
InsertWorkspace ==
    /\ Rows(tables) < MaxRows
    /\ \E project_id \in 1..(Len(tables.projects) + 1) :
         LET r == insert_workspace(tables, "ws", "ws", project_id,
                                   <<ProjectPath, "/", "ws">>, "topic",
                                   <<"origin/", "topic">>)
         IN  /\ tables' = r.db
             /\ last_call' = CallRecord("insert_workspace", project_id, "",
                                        r.lastrowid, r.raised)
    /\ UNCHANGED repo
    /\ UNCHANGED outside_project

\* insert_event: the timestamp is the one given or the clock's reading.
InsertEvent ==
    /\ Rows(tables) < MaxRows
    /\ \E project_id \in 1..(Len(tables.projects) + 1),
          workspace_id \in {None} \cup {Some(w) : w \in 1..(Len(tables.workspaces) + 1)},
          timestamp \in Timestamps :
         LET r == insert_event(tables, "build", project_id, "success",
                               workspace_id, timestamp)
         IN  /\ tables' = r.db
             /\ last_call' = CallRecord("insert_event", project_id, "",
                                        r.lastrowid, r.raised)
    /\ UNCHANGED repo
    /\ UNCHANGED outside_project

GetEventsByProjectId ==
    /\ \E project_id \in 1..(Len(tables.projects) + 1) :
         \E rows \in get_events_by_project_id(tables, project_id) :
            last_call' = CallRecord("get_events_by_project_id", project_id, "",
                                    rows, None)
    /\ UNCHANGED <<tables, repo>>
    /\ UNCHANGED outside_project

\* prj init: a run inserts at most four rows.
InitCommand ==
    /\ Rows(tables) + 4 <= MaxRows
    /\ \E t1, t2 \in Timestamps :
         /\ t1 <= t2
         /\ LET r == init(tables, repo, "proj", t1, t2)
            IN  /\ tables' = r.db
                /\ last_call' = CallRecord("init", 0, "", r.exit_code, None)
    /\ UNCHANGED repo
    /\ UNCHANGED outside_project

\* create_workspace of the service of a registered project.
CreateWorkspace ==
    /\ Rows(tables) + 2 <= MaxRows
    /\ \E project_id \in RowIds(tables.projects), name \in WorkspaceNames,
          branch_name \in {None, Some("fix")},
          base_branch \in {None, Some("main"), Some("dev")},
          t \in Timestamps :
         LET r == create_workspace(tables, repo, project_id, name, branch_name,
                                   base_branch, t)
         IN  /\ tables' = r.db
             /\ repo' = r.repo
             /\ last_call' =
                  Some([name |-> name, branch_name |-> branch_name,
                        base_branch |-> base_branch]
                       @@ CallRecord("create_workspace", project_id,
                                     r.worktree, r.returned, r.raised)[1])
    /\ UNCHANGED outside_project

\* list_events of the service of a registered project: for the project, for
\* a Workspace object without id, or for one of the stored workspaces.
ListEvents ==
    /\ \E project_id \in RowIds(tables.projects),
          workspace \in {None, Some([id |-> None])}
                        \cup {Some([id |-> Some(w)]) : w \in RowIds(tables.workspaces)} :
         \E r \in list_events(tables, project_id, workspace) :
            last_call' = Some([workspace |-> workspace]
                              @@ CallRecord("list_events", project_id, "",
                                            r.returned, r.raised)[1])
    /\ UNCHANGED <<tables, repo>>
    /\ UNCHANGED outside_project

ProjectNext ==
    \/ InsertProject
    \/ InsertWorkspace
    \/ InsertEvent
    \/ GetEventsByProjectId
    \/ InitCommand
    \/ CreateWorkspace
    \/ ListEvents

ProjectSpec == ProjectInit /\ [][ProjectNext]_vars

\* ------------------------------- second revision: writes that may fail

\* prj init in which one of the writes may fail.
InitWithFault ==
    /\ Rows(tables) + 4 <= MaxRows
    /\ \E t1, t2 \in Timestamps, fault \in 0..4 :
         /\ t1 <= t2
         /\ LET r == init_writes(tables, repo, "proj", t1, t2, fault)
            IN  /\ tables' = r.db
                /\ last_call' = Some([fault |-> fault]
                                     @@ CallRecord("init", 0, "", r.exit_code,
                                                   None)[1])
    /\ UNCHANGED repo
    /\ UNCHANGED outside_project

\* create_workspace in which one of the writes may fail.
CreateWorkspaceWithFault ==
    /\ Rows(tables) + 2 <= MaxRows
    /\ \E project_id \in RowIds(tables.projects), name \in WorkspaceNames,
          branch_name \in {None, Some("fix")},
          base_branch \in {None, Some("main"), Some("dev")},
          t \in Timestamps, fault \in 0..2 :
         LET r == create_workspace_writes(tables, repo, project_id, name,
                                          branch_name, base_branch, t, fault)
         IN  /\ tables' = r.db
             /\ repo' = r.repo
             /\ last_call' =
                  Some([name |-> name, branch_name |-> branch_name,
                        base_branch |-> base_branch, fault |-> fault]
                       @@ CallRecord("create_workspace", project_id,
                                     r.worktree, r.returned, r.raised)[1])
    /\ UNCHANGED outside_project

FaultNext ==
    \/ InitWithFault
    \/ CreateWorkspaceWithFault

FaultSpec == ProjectInit /\ [][FaultNext]_vars

\* ------------------------------------------------------- parameter binding

\* Number of INSERT statements executed.
MaxInserts == 3

\* A lone surrogate code point: a Python str may hold one (a file name that
\* is not UTF-8 decodes to one), UTF-8 has no encoding for it.
Surrogate == "\\ud800"

\* Strings are sequences of pieces.  The samples of tests/test_database.py
\* and the plain, the empty and the unencodable string.
StringValues ==
    {<<>>,
     <<"x">>,
     <<"'", ";", " DROP TABLE events", ";", " --">>,
     <<"'", " OR ", "'", "1", "'", "=", "'", "1">>,
     <<"x", Surrogate>>}

\* The tables of the two schemas.
TableNames == {"events", "artifacts", "projects", "workspaces", "event_log"}

EmptySqlTables == [t \in TableNames |-> <<>>]

\* The INSERT statements: the method, its table, a column that takes a str,
\* and the table a row of which the inserted row must reference.
Statements ==
    {[op |-> "start_event", table |-> "events", column |-> "command", parent |-> None],
     [op |-> "start_event", table |-> "events", column |-> "project_path", parent |-> None],
     [op |-> "store_artifact", table |-> "artifacts", column |-> "file_path",
      parent |-> Some("events")],
     [op |-> "insert_project", table |-> "projects", column |-> "name", parent |-> None],
     [op |-> "insert_workspace", table |-> "workspaces", column |-> "name",
      parent |-> Some("projects")],
     [op |-> "insert_event", table |-> "event_log", column |-> "action",
      parent |-> Some("projects")]}

\* The value spliced into the statement text between quotes.
interpolated(value) == [text |-> <<"'">> \o value \o <<"'">>, parameters |-> <<>>]

\* VALUES (?, ...) with the tuple of values beside the text: what every
\* execute call of both revisions does.
placeholder(value) == [text |-> <<"?">>, parameters |-> <<value>>]

encodable(value) == \A k \in DOMAIN value : value[k] # Surrogate

\* What the engine makes of one entry of the VALUES list.  A ? takes its
\* parameter as data, which sqlite3 first encodes as UTF-8; a quoted literal
\* runs to the next quote and what follows it is read as SQL, which one
\* execute call refuses.
slot_value(slot) ==
    IF slot.text = <<"?">>
    THEN IF encodable(slot.parameters[1])
         THEN [raised |-> None, value |-> slot.parameters[1]]
         ELSE [raised |-> Some("UnicodeEncodeError"), value |-> <<>>]
    ELSE LET body == SubSeqOrEmpty(slot.text, 2, Len(slot.text) - 1)
         IN  IF \E k \in DOMAIN body : body[k] = "'"
             THEN [raised |-> Some("OperationalError"), value |-> <<>>]
             ELSE IF encodable(body)
             THEN [raised |-> None, value |-> body]
             ELSE [raised |-> Some("UnicodeEncodeError"), value |-> <<>>]

\* conn.execute(INSERT ..., parameters) and conn.commit().
execute_insert(db, statement, value) ==
    LET v == slot_value(placeholder(value))
    IN  IF v.raised # None
        THEN [db |-> db, lastrowid |-> None, raised |-> v.raised]
        ELSE [db |-> [db EXCEPT ![statement.table] =
                         Append(@, [column |-> statement.column, value |-> v.value])],
              lastrowid |-> Some(Len(db[statement.table]) + 1),
              raised |-> None]

\* SELECT ... WHERE id = ?
fetch(db, table, id) == db[table][id].value

InsertsDone(db) ==
    Len(db["events"]) + Len(db["artifacts"]) + Len(db["projects"])
    + Len(db["workspaces"]) + Len(db["event_log"])

\* Both databases initialised, no row.
BindInit ==
    /\ sql_tables = EmptySqlTables
    /\ last_insert = None
    /\ OutsideBindAtRest

\* One insert method called with the string as the value of a str field;
\* the row it must reference, if any, exists.
Insert(op, value) ==
    /\ \E statement \in Statements :
         /\ statement.op = op
         /\ statement.parent # None => sql_tables[statement.parent[1]] # <<>>
         /\ LET r == execute_insert(sql_tables, statement, value)
            IN  /\ sql_tables' = r.db
                /\ last_insert' = Some([statement |-> statement, value |-> value,
                                        lastrowid |-> r.lastrowid,
                                        raised |-> r.raised,
                                        before |-> sql_tables])
    /\ UNCHANGED outside_bind

BindStartEvent ==
    /\ InsertsDone(sql_tables) < MaxInserts
    /\ \E value \in StringValues : Insert("start_event", value)

BindStoreArtifact ==
    /\ InsertsDone(sql_tables) < MaxInserts
    /\ \E value \in StringValues : Insert("store_artifact", value)

BindInsertProject ==
    /\ InsertsDone(sql_tables) < MaxInserts
    /\ \E value \in StringValues : Insert("insert_project", value)

BindInsertWorkspace ==
    /\ InsertsDone(sql_tables) < MaxInserts
    /\ \E value \in StringValues : Insert("insert_workspace", value)

BindInsertEvent ==
    /\ InsertsDone(sql_tables) < MaxInserts
    /\ \E value \in StringValues : Insert("insert_event", value)

BindNext ==
    \/ BindStartEvent
    \/ BindStoreArtifact
    \/ BindInsertProject
    \/ BindInsertWorkspace
    \/ BindInsertEvent

BindSpec == BindInit /\ [][BindNext]_vars

\* ----------------------------------------------------------- command loader

\* Number of definition files, in the project and among the templates.
MaxFiles == 3

LoaderNames == {"build", "test"}

Descriptions == {"d1", "d2"}

search_suffixes_yml_first == <<".yml", ".yaml">>

\* The files load_command looks for, in the order of search_paths, and the
\* suffix discover_commands globs for.
search_suffixes == <<".yaml", ".yml">>

ProjectFiles == {<<n, search_suffixes[k]>> : n \in LoaderNames, k \in DOMAIN search_suffixes}

\* What a definition file holds: text that is not YAML, or a YAML document:
\* the empty one, a mapping without name, or a mapping with name.
Contents ==
    {[yaml |-> "invalid", data |-> <<>>], [yaml |-> "ok", data |-> <<>>],
     [yaml |-> "ok", data |-> [description |-> "d1"]]}
    \cup {[yaml |-> "ok", data |-> [name |-> n, description |-> d]] :
             n \in LoaderNames, d \in Descriptions}

\* _parse_command_yaml: None for a YAMLError, for an empty document and for
\* any other exception (data['name'] of a mapping without name).
parse_command_yaml(content) ==
    IF content.yaml = "invalid" THEN None
    ELSE IF DOMAIN content.data = {} THEN None
    ELSE IF "name" \notin DOMAIN content.data THEN None
    ELSE Some([name |-> content.data.name,
               description |-> content.data.description])

\* The orders in which a directory may list the files of a set.
Listings(files) ==
    {s \in [1..Cardinality(files) -> files] :
        \A j, k \in DOMAIN s : j # k => s[j] # s[k]}

IsSome(x) == x # None

\* The definitions of the files of a listing that parse, in its order.
ParsedOf(listing, dir) ==
    LET parsed == SelectSeq([k \in DOMAIN listing |-> parse_command_yaml(dir[listing[k]])],
                            IsSome)
    IN  [k \in DOMAIN parsed |-> parsed[k][1]]

\* self._command_cache[cmd.name] = cmd for each command in turn.
CachedAll(cache, commands) ==
    LET names == {commands[k].name : k \in DOMAIN commands}
        last(n) == CHOOSE k \in DOMAIN commands :
                      /\ commands[k].name = n
                      /\ \A j \in DOMAIN commands : commands[j].name = n => j <= k
    IN  [n \in DOMAIN cache \cup names |->
            IF n \in names THEN commands[last(n)] ELSE cache[n]]

\* _load_commands_from_dir: cmd_dir.glob("*.yaml").
load_commands_from_dir(cache, dir, listing) ==
    LET commands == ParsedOf(listing, dir)
    IN  [commands |-> commands, cache |-> CachedAll(cache, commands)]

GlobYaml(dir) == {f \in DOMAIN dir : f[2] = ".yaml"}

\* load_command after the cache: the first of search_paths that exists and
\* parses, then the template of that name.
load_from_files(dir, templates, name) ==
    LET hits == {k \in DOMAIN search_suffixes :
                    /\ <<name, search_suffixes[k]>> \in DOMAIN dir
                    /\ parse_command_yaml(dir[<<name, search_suffixes[k]>>]) # None}
    IN  IF hits # {}
        THEN parse_command_yaml(
                 dir[<<name, search_suffixes[CHOOSE k \in hits : \A j \in hits : k <= j]>>])
        ELSE IF name \in DOMAIN templates
        THEN parse_command_yaml(templates[name])
        ELSE None

\* CommandLoader.load_command with project files of both suffixes and the
\* templates.
load_command_from(cache, dir, templates, name) ==
    IF name \in DOMAIN cache
    THEN [found |-> Some(cache[name]), cache |-> cache]
    ELSE LET cmd == load_from_files(dir, templates, name)
         IN  IF cmd # None
             THEN [found |-> cmd, cache |-> (name :> cmd[1]) @@ cache]
             ELSE [found |-> None, cache |-> cache]

\* A new CommandLoader, and some definition files in the project's
\* .prj/commands and among the templates.
LoaderInit ==
    /\ project_commands \in UNION {[F -> Contents] : F \in SUBSET ProjectFiles}
    /\ template_commands \in UNION {[F -> Contents] : F \in SUBSET LoaderNames}
    /\ Cardinality(DOMAIN project_commands) + Cardinality(DOMAIN template_commands)
         <= MaxFiles
    /\ loader_cache = <<>>
    /\ loader_call = None
    /\ OutsideLoaderAtRest

\* discover_commands: the project's *.yaml files, then the templates.
DiscoverCommands ==
    /\ \E listing \in Listings(GlobYaml(project_commands)),
          template_listing \in Listings(DOMAIN template_commands) :
         LET loaded == load_commands_from_dir(loader_cache, project_commands, listing)
             commands == loaded.commands
                         \o ParsedOf(template_listing, template_commands)
         IN  /\ loader_cache' = loaded.cache
             /\ loader_call' = Some([op |-> "discover_commands", name |-> "",
                                     returned |-> commands, raised |-> None,
                                     before |-> loader_cache])
    /\ UNCHANGED <<project_commands, template_commands>>
    /\ UNCHANGED outside_loader

\* load_command(command_name, project_path)
LoadByName ==
    /\ \E name \in LoaderNames :
         LET r == load_command_from(loader_cache, project_commands,
                                    template_commands, name)
         IN  /\ loader_cache' = r.cache
             /\ loader_call' = Some([op |-> "load_command", name |-> name,
                                     returned |-> r.found, raised |-> None,
                                     before |-> loader_cache])
    /\ UNCHANGED <<project_commands, template_commands>>
    /\ UNCHANGED outside_loader

LoaderNext ==
    \/ DiscoverCommands
    \/ LoadByName

LoaderSpec == LoaderInit /\ [][LoaderNext]_vars

\* ------------------------------------------------- concurrent start_event

\* Number of start_event calls gathered against one database.
NumCallers == 3

Callers == 1..NumCallers

\* f"command-{i}" and f"session-{i}" of create_event(i)
caller_command(i) == <<"command-", i>>

caller_session(i) == <<"session-", i>>

write_lock_always_free(lock) == TRUE

\* SQLite grants the write lock of a database file to one connection at a
\* time: an INSERT proceeds when no other connection holds it.
write_lock_free(lock) == lock = None

ConcInit ==
    /\ conc_events = <<>>
    /\ conc_pc = [i \in Callers |-> "gathered"]
    /\ conc_lock = None
    /\ conc_pending = [i \in Callers |-> None]
    /\ conc_ids = [i \in Callers |-> None]
    /\ OutsideConcAtRest

\* async with self.connection() as db: connect and PRAGMA foreign_keys
ConcOpen ==
    /\ \E i \in Callers :
         /\ conc_pc[i] = "gathered"
         /\ conc_pc' = [conc_pc EXCEPT ![i] = "opened"]
    /\ UNCHANGED <<conc_events, conc_lock, conc_pending, conc_ids>>
    /\ UNCHANGED outside_conc

\* cursor = await db.execute("INSERT INTO events ..."): the connection takes
\* the write lock and inserts, uncommitted, the row after the last one.
ConcInsert ==
    /\ \E i \in Callers :
         /\ conc_pc[i] = "opened"
         /\ write_lock_free(conc_lock)
         /\ LET started == start_event(conc_events, caller_command(i),
                                       caller_session(i))
            IN  conc_pending' =
                    [conc_pending EXCEPT
                        ![i] = Some([row |-> started.table[started.lastrowid],
                                     lastrowid |-> started.lastrowid])]
         /\ conc_lock' = Some(i)
         /\ conc_pc' = [conc_pc EXCEPT ![i] = "inserted"]
    /\ UNCHANGED <<conc_events, conc_ids>>
    /\ UNCHANGED outside_conc

\* The INSERT of a connection that has waited for the write lock for the
\* whole busy timeout (aiosqlite.connect without timeout: 5 seconds) raises
\* OperationalError: database is locked.
ConcInsertBusy ==
    /\ \E i \in Callers :
         /\ conc_pc[i] = "opened"
         /\ ~write_lock_free(conc_lock)
         /\ conc_pc' = [conc_pc EXCEPT ![i] = "raised"]
    /\ UNCHANGED <<conc_events, conc_lock, conc_pending, conc_ids>>
    /\ UNCHANGED outside_conc

\* await db.commit(): the row is in the table and the lock is released.
ConcCommit ==
    /\ \E i \in Callers :
         /\ conc_pc[i] = "inserted"
         /\ conc_events' = Append(conc_events, conc_pending[i][1].row)
         /\ conc_lock' = None
         /\ conc_pc' = [conc_pc EXCEPT ![i] = "committed"]
    /\ UNCHANGED <<conc_pending, conc_ids>>
    /\ UNCHANGED outside_conc

\* A commit waits for the connections that are reading the file to let go: a
\* commit that has waited for the whole busy timeout while another
\* connection is trying to write raises OperationalError, and the connection
\* closes with its row rolled back.
ConcCommitBusy ==
    /\ \E i \in Callers :
         /\ conc_pc[i] = "inserted"
         /\ \E j \in Callers : j # i /\ conc_pc[j] = "opened"
         /\ conc_pending' = [conc_pending EXCEPT ![i] = None]
         /\ conc_lock' = None
         /\ conc_pc' = [conc_pc EXCEPT ![i] = "raised"]
    /\ UNCHANGED <<conc_events, conc_ids>>
    /\ UNCHANGED outside_conc

\* return cursor.lastrowid, and the connection closes.
ConcReturn ==
    /\ \E i \in Callers :
         /\ conc_pc[i] = "committed"
         /\ conc_ids' = [conc_ids EXCEPT ![i] = Some(conc_pending[i][1].lastrowid)]
         /\ conc_pending' = [conc_pending EXCEPT ![i] = None]
         /\ conc_pc' = [conc_pc EXCEPT ![i] = "returned"]
    /\ UNCHANGED <<conc_events, conc_lock>>
    /\ UNCHANGED outside_conc

ConcNext ==
    \/ ConcOpen
    \/ ConcInsert
    \/ ConcInsertBusy
    \/ ConcCommit
    \/ ConcCommitBusy
    \/ ConcReturn

ConcSpec == ConcInit /\ [][ConcNext]_vars

\* ------------------------------------------------- session ids over runs

\* Number of execute_command calls on the Executor.
MaxRuns == 3

\* The last second of the wall clock.
MaxClock == 2

\* Project roots, as <<parent, name>>: project_path.name is the name.
ProjectPaths == {<<"/a", "proj">>, <<"/b", "proj">>}

SessionInit ==
    /\ sess_clock = 0
    /\ sess_store = [dirs |-> {}, info |-> <<>>, logs |-> {}]
    /\ sess_runs = <<>>
    /\ OutsideSessionAtRest

\* A second passes.
SessionTick ==
    /\ sess_clock < MaxClock
    /\ sess_clock' = sess_clock + 1
    /\ UNCHANGED <<sess_store, sess_runs>>
    /\ UNCHANGED outside_session

\* execute_command of a command that loads and validates, up to the context:
\* the session id from the project's name and the clock, and
\* create_session_dir (mkdir with exist_ok, session.info written anew).
SessionRun ==
    /\ Len(sess_runs) < MaxRuns
    /\ \E path \in ProjectPaths, name \in LoaderNames :
         LET sid == SessionId(path[2], sess_clock)
         IN  /\ sess_store' = create_session_dir(sess_store, sid, name, sess_clock)
             /\ sess_runs' = Append(sess_runs,
                                 [project_path |-> path, session_id |-> sid,
                                  existed |-> sid \in sess_store.dirs])
    /\ UNCHANGED sess_clock
    /\ UNCHANGED outside_session

SessionNext ==
    \/ SessionTick
    \/ SessionRun

SessionSpec == SessionInit /\ [][SessionNext]_vars

\* ------------------------------------------------- second revision: tmux

\* Number of subprocess.run calls.
MaxTmuxCalls == 2

ServerNames == {"prunejuice", "test_server"}

TmuxCommands == {"echo test", "echo test; rm -rf /"}

SessionNames == {"test_session", "feat-x"}

WorkingDirs == {"", "/tmp/work"}

\* Python values: None, and a list with its items.
PyNone == [type |-> "NoneType"]

PyList(items) == [type |-> "list", items |-> items]

\* list.extend(args) as an expression: the list is extended in place and
\* the value of the call is None.
list_extend(list, more) == PyNone

\* subprocess.run(args, stdout=PIPE, stderr=PIPE, check=False): a TypeError
\* for args that is no sequence, a FileNotFoundError without the program,
\* else the completed process with whatever exit status it had.
subprocess_run(argv) ==
    IF argv.type # "list"
    THEN {[returned |-> None, raised |-> Some("TypeError")]}
    ELSE {[returned |-> None, raised |-> Some("FileNotFoundError")]}
         \cup {[returned |-> Some([args |-> argv.items, returncode |-> code]),
                raised |-> None] : code \in {0, 1}}

\* What TmuxManager._tmux_cmd(*args) hands to subprocess.run.
tmux_cmd_argv(server_name, tmux_args) ==
    list_extend(PyList(<<"tmux", <<"-L", server_name>>>>), tmux_args)

\* run_command_detached: the arguments of _tmux_cmd.
detached_args(cmd, session_name, working_dir) ==
    <<"new", "-d", "-s", session_name, cmd>>
    \o (IF working_dir # "" THEN <<"-c", working_dir>> ELSE <<>>)

TmuxInit ==
    /\ tmux_server \in ServerNames
    /\ tmux_runs = <<>>
    /\ tmux_calls = <<>>
    /\ OutsideTmuxAtRest

\* run_command_detached(cmd, session_name, working_dir)
RunCommandDetached ==
    /\ Len(tmux_runs) < MaxTmuxCalls
    /\ \E cmd \in TmuxCommands, session_name \in SessionNames,
          working_dir \in WorkingDirs :
         LET argv == tmux_cmd_argv(tmux_server,
                                   detached_args(cmd, session_name, working_dir))
         IN  \E r \in subprocess_run(argv) :
                /\ tmux_runs' = Append(tmux_runs, argv)
                /\ tmux_calls' =
                     Append(tmux_calls,
                            [op |-> "run_command_detached", cmd |-> cmd,
                             session_name |-> session_name,
                             working_dir |-> working_dir,
                             returned |-> r.returned, raised |-> r.raised])
    /\ UNCHANGED tmux_server
    /\ UNCHANGED outside_tmux

\* check_tmux_available: _tmux_cmd("-V"); only FileNotFoundError is caught.
CheckTmuxAvailable ==
    /\ Len(tmux_runs) < MaxTmuxCalls
    /\ LET argv == tmux_cmd_argv(tmux_server, <<"-V">>)
       IN  \E r \in subprocess_run(argv) :
              /\ tmux_runs' = Append(tmux_runs, argv)
              /\ tmux_calls' =
                   Append(tmux_calls,
                          [op |-> "check_tmux_available", cmd |-> "",
                           session_name |-> "", working_dir |-> "",
                           returned |-> IF r.raised = Some("FileNotFoundError")
                                        THEN Some(FALSE)
                                        ELSE IF r.raised # None THEN None
                                        ELSE Some(r.returned[1].returncode = 0),
                           raised |-> IF r.raised = Some("FileNotFoundError")
                                      THEN None ELSE r.raised])
    /\ UNCHANGED tmux_server
    /\ UNCHANGED outside_tmux

TmuxNext ==
    \/ RunCommandDetached
    \/ CheckTmuxAvailable

TmuxSpec == TmuxInit /\ [][TmuxNext]_vars

\* ------------------------------------------- environment of script steps

\* Environment variable names, as sequences of pieces, and values.
EnvNames == {<<"PATH">>, <<"FOO">>}

EnvValues == {"a", "b"}

Environments == UNION {[N -> EnvValues] : N \in SUBSET EnvNames}

\* A Python value with its type.
PyValue(type, value) == [type |-> type, value |-> value]

\* isinstance(value, (str, int, float, bool))
is_primitive(value) == value.type \in {"str", "int", "float", "bool"}

\* str(value) of a primitive: a string is itself, the int n is its decimal
\* text.
py_str(value) ==
    IF value.type = "str" THEN value.value
    ELSE CASE value.value = 1 -> "1" [] value.value = 2 -> "2"

\* key.upper() of the context's keys.
upper(key) ==
    CASE key = "command" -> "COMMAND"
      [] key = "project_path" -> "PROJECT_PATH"
      [] key = "session_id" -> "SESSION_ID"
      [] key = "artifact_dir" -> "ARTIFACT_DIR"
      [] key = "args" -> "ARGS"
      [] key = "environment" -> "ENVIRONMENT"
      [] key = "working_directory" -> "WORKING_DIRECTORY"
      [] key = "event_id" -> "EVENT_ID"

\* {**os.environ, **command.environment}
merged_environment(environ, declared) == declared @@ environ

\* The context execute_command assembles.
make_context(environ, declared) ==
    [command           |-> PyValue("CommandDefinition", KnownCommand),
     project_path      |-> PyValue("Path", ProjectName),
     session_id        |-> PyValue("str", "proj-1"),
     artifact_dir      |-> PyValue("Path", "proj-1"),
     args              |-> PyValue("dict", <<>>),
     environment       |-> PyValue("dict", merged_environment(environ, declared)),
     working_directory |-> PyValue("str", ProjectName)]

\* context['event_id'] = event_id, or None when start_event raised.
with_event_id(ctx, id) ==
    ("event_id" :> (IF id = None THEN PyValue("NoneType", None)
                    ELSE PyValue("int", id[1])))
    @@ ctx

\* _execute_script: env = os.environ.copy(), then PRUNEJUICE_<KEY> = str(value)
\* for each primitive value of the context.
script_env(environ, ctx) ==
    LET keys == {k \in DOMAIN ctx : is_primitive(ctx[k])}
    IN  [n \in DOMAIN environ \cup {<<"PRUNEJUICE_", upper(k)>> : k \in keys} |->
            IF \E k \in keys : n = <<"PRUNEJUICE_", upper(k)>>
            THEN py_str(ctx[CHOOSE k \in keys : n = <<"PRUNEJUICE_", upper(k)>>])
            ELSE environ[n]]

EnvironInit ==
    /\ env_os \in Environments
    /\ env_declared \in Environments
    /\ env_context = <<>>
    /\ env_pc = "context"
    /\ env_child = None
    /\ OutsideEnvironAtRest

\* context = {...}
EnvCreateContext ==
    /\ env_pc = "context"
    /\ env_context' = make_context(env_os, env_declared)
    /\ env_pc' = "event"
    /\ UNCHANGED <<env_os, env_declared, env_child>>
    /\ UNCHANGED outside_environ

\* start_event returned an id or raised.
EnvStartEvent ==
    /\ env_pc = "event"
    /\ \E id \in {None, Some(1), Some(2)} :
          env_context' = with_event_id(env_context, id)
    /\ env_pc' = "script"
    /\ UNCHANGED <<env_os, env_declared, env_child>>
    /\ UNCHANGED outside_environ

\* A step that is a script: _execute_script spawns the child.
EnvExecuteScript ==
    /\ env_pc = "script"
    /\ env_child' = Some(script_env(env_os, env_context))
    /\ env_pc' = "spawned"
    /\ UNCHANGED <<env_os, env_declared, env_context>>
    /\ UNCHANGED outside_environ

EnvironNext ==
    \/ EnvCreateContext
    \/ EnvStartEvent
    \/ EnvExecuteScript

EnvironSpec == EnvironInit /\ [][EnvironNext]_vars

\* ------------------------------------------------------- claim vocabulary

\* The invocations of the step runner made by the step loop, and by the
\* cleanup loop.
IsRunCall(call) == call.phase = "run"

IsCleanupCall(call) == call.phase = "cleanup"

RunCalls == SelectSeq(runner_calls, IsRunCall)

CleanupCalls == SelectSeq(runner_calls, IsCleanupCall)

StepsOf(calls) == [k \in DOMAIN calls |-> calls[k].step]

IsPrefix(s, t) == Len(s) <= Len(t) /\ \A k \in DOMAIN s : s[k] = t[k]

\* The declared order of the loaded command.
DeclaredOrder == command[1].pre_steps \o command[1].steps \o command[1].post_steps

DeclaredCleanup == command[1].cleanup_on_failure

SomeRunCallFailed == \E k \in DOMAIN RunCalls : ~RunCalls[k].success

LogWriteRaised == exc = Some(<<"OSError">>)

IsEndEvent(call) == call.op = "end_event"

EndEventCalls == SelectSeq(db_calls, IsEndEvent)

\* The required arguments of the command file that the caller left out.
MissingRequired ==
    IF command_name # None /\ command_name[1] \in DOMAIN cmd_files
    THEN {ad.name : ad \in {d \in Range(cmd_files[command_name[1]].arguments) :
                               d.required /\ d.name \notin args}}
    ELSE {}

Returned == pc = "done"

\* A call that got past loading and validation and was not a dry run.
RealRun == session_id # None /\ ~dry_run

\* ------------------------------------------------------------------ claims

\* C1: the step runner is invoked in the order pre_steps ++ steps ++
\* post_steps, and a cleanup step is invoked only after a step has failed or
\* the run has raised, after every run step, in the declared cleanup order.
C1_StepOrder ==
    runner_calls # <<>> =>
        /\ command # None
        /\ runner_calls = RunCalls \o CleanupCalls
        /\ IsPrefix(StepsOf(RunCalls), DeclaredOrder)
        /\ IsPrefix(StepsOf(CleanupCalls), DeclaredCleanup)
        /\ CleanupCalls # <<>> => SomeRunCallFailed \/ LogWriteRaised

\* A pre-step ran, then a main step failed, then a cleanup step ran.
C1_Witness ==
    /\ Returned
    /\ command # None
    /\ command[1].pre_steps # <<>>
    /\ command[1].steps # <<>>
    /\ Len(RunCalls) = 2
    /\ ~RunCalls[2].success
    /\ CleanupCalls # <<>>

\* C2: the k-th invocation of the step loop is the k-th step occurrence (none
\* skipped, none repeated), a failed step is the last one invoked, and the
\* run it failed in returns failure.
C2_FailureEndsRun ==
    /\ \A k \in DOMAIN RunCalls :
          /\ RunCalls[k].index = k
          /\ ~RunCalls[k].success => k = Len(RunCalls)
    /\ SomeRunCallFailed => pc \in {"finish", "cleanup", "done"}
    /\ Returned /\ SomeRunCallFailed => ~result[1].success

\* The second of three steps failed and the third was never invoked.
C2_Witness ==
    /\ Returned
    /\ command # None
    /\ Len(DeclaredOrder) = 3
    /\ Len(RunCalls) = 2
    /\ RunCalls[1].success
    /\ ~RunCalls[2].success

\* C3: when a step failed, every cleanup step has been invoked exactly once,
\* in declared order, by the time execute_command returns, whatever the
\* cleanup steps reported; a successful run invokes none.
C3_CleanupExactlyOnce ==
    Returned /\ RealRun =>
        /\ SomeRunCallFailed =>
              /\ StepsOf(CleanupCalls) = DeclaredCleanup
              /\ \A k \in DOMAIN CleanupCalls : CleanupCalls[k].index = k
        /\ result[1].success => CleanupCalls = <<>>

\* A step failed, the first cleanup step failed too, and the second ran.
C3_Witness ==
    /\ Returned
    /\ RealRun
    /\ SomeRunCallFailed
    /\ Len(DeclaredCleanup) = 2
    /\ Len(CleanupCalls) = 2
    /\ ~CleanupCalls[1].success

\* The run whose step sequence is [a, b], two distinct names other than the
\* built-in cleanup, in which a succeeded and b was reported failed (the
\* loop raised StepError).
TwoStepRunFailedAtSecond ==
    /\ Returned
    /\ RealRun
    /\ Len(DeclaredOrder) = 2
    /\ DeclaredOrder[1] # DeclaredOrder[2]
    /\ "cleanup" \notin Range(DeclaredOrder)
    /\ Len(RunCalls) = 2
    /\ RunCalls[1].success
    /\ ~RunCalls[2].success
    /\ ~LogWriteRaised

\* The tracker reports the first step completed and the second failed.
TrackerReportsBoth ==
    /\ get_step_status(step_states, session_id[1], DeclaredOrder[1])
         = Some("completed")
    /\ get_step_status(step_states, session_id[1], DeclaredOrder[2])
         = Some("failed")

C5_UnknownCommand ==
    Returned /\ command_name[1] \notin DOMAIN cmd_files =>
        /\ ~result[1].success
        /\ result[1].error # None
        /\ command_name[1] \in Range(result[1].error[1])
        /\ runner_calls = <<>>
        /\ db_calls = <<>>
        /\ events = before[1].events

\* execute_command has returned for the name that has no definition file.
C5_Witness ==
    /\ Returned
    /\ command_name = Some(UnknownCommand)
    /\ UnknownCommand \notin DOMAIN cmd_files
    /\ result # None

\* C6: with a required argument missing the call returns a failure whose
\* error text holds the name of every missing required argument, with no
\* step runner invocation, no database call, no event row and the artifact
\* store (step logs included) as it was.
C6_MissingRequiredArgument ==
    Returned /\ MissingRequired # {} =>
        /\ ~result[1].success
        /\ result[1].error # None
        /\ MissingRequired \subseteq Range(result[1].error[1])
        /\ runner_calls = <<>>
        /\ db_calls = <<>>
        /\ events = before[1].events
        /\ artifacts = before[1].artifacts

\* Two required arguments are declared and both are missing.
C6_Witness ==
    /\ Returned
    /\ Cardinality(MissingRequired) = 2
    /\ result # None

\* C7: a dry run never calls the step runner or the database, the event
\* table stays as it was, and for a command that loads and validates it
\* returns success with the steps pre_steps ++ steps ++ post_steps as preview.
C7_DryRunNoEventNoStep ==
    dry_run /\ pc # "idle" =>
        /\ runner_calls = <<>>
        /\ db_calls = <<>>
        /\ events = before[1].events
        /\ Returned /\ command # None /\ MissingRequired = {} =>
              /\ result[1].success
              /\ result[1].output # None
              /\ result[1].output[1].steps = DeclaredOrder

\* A dry run of a command with steps in all three lists has returned.
C7_Witness ==
    /\ Returned
    /\ dry_run
    /\ command # None
    /\ command[1].pre_steps # <<>>
    /\ command[1].steps # <<>>
    /\ command[1].post_steps # <<>>
    /\ result[1].success

\* C8: after a dry run returns, the artifact store, the event table and the
\* step state are as they were before the call.
C8_DryRunNoSideEffects ==
    Returned /\ dry_run =>
        /\ artifacts = before[1].artifacts
        /\ events = before[1].events
        /\ step_states = before[1].step_states

\* C9: end_event is attempted at most once in a run, and exactly once by
\* the time a run that started an event returns: for that event, completed
\* with exit code 0 and no error when the result is a success, failed with
\* exit code 1 and the result's error otherwise; the row holds what the one
\* attempt wrote, or is as start_event left it when the attempt raised.
C9_OneEndEvent ==
    /\ Len(EndEventCalls) <= 1
    /\ Returned /\ event_id # NoEventId =>
          /\ Len(EndEventCalls) = 1
          /\ LET end == EndEventCalls[1]
                 row == events[event_id]
             IN  /\ end.event_id = event_id
                 /\ result[1].success =>
                       /\ end.status = "completed"
                       /\ end.exit_code = Some(0)
                       /\ end.error_message = None
                 /\ ~result[1].success =>
                       /\ end.status = "failed"
                       /\ end.exit_code = Some(1)
                       /\ end.error_message = result[1].error
                       /\ end.error_message # None
                 /\ ~end.raised =>
                       /\ row.status = end.status
                       /\ row.exit_code = end.exit_code
                       /\ row.error_message = end.error_message
                       /\ row.ended
                 /\ end.raised =>
                       /\ row.status = "running"
                       /\ row.exit_code = None
                       /\ ~row.ended

\* A run with an event failed and its row was marked failed.
C9_Witness ==
    /\ Returned
    /\ event_id # NoEventId
    /\ ~result[1].success
    /\ events[event_id].status = "failed"
    /\ events[event_id].error_message # None

\* C10: the success flag of a run is decided by its steps alone (success
\* exactly when every step occurrence was invoked and succeeded and no step
\* log write raised), whichever of start_event and end_event raised; and
\* after a start_event that raised the step loop still runs every step up to
\* the first failure.
C10_DatabaseFailureNeverFlips ==
    Returned /\ RealRun =>
        /\ result[1].success <=>
              /\ Len(RunCalls) = Len(DeclaredOrder)
              /\ ~SomeRunCallFailed
              /\ ~LogWriteRaised
        /\ db_calls # <<>>
        /\ db_calls[1].raised =>
              \/ Len(RunCalls) = Len(DeclaredOrder)
              \/ SomeRunCallFailed
              \/ LogWriteRaised

\* start_event raised and the run of two steps still succeeded.
C10_Witness ==
    /\ Returned
    /\ RealRun
    /\ db_calls[1].raised
    /\ Len(RunCalls) = 2
    /\ result[1].success

\* ------------------------------------------------------------- claim C11

\* C11: StepExecutor.execute never lets an exception through to its caller:
\* a step that threw gives (False, "Step '<step>' failed: <message>"), a
\* timeout gives (False, a timeout message) and a name that resolves to
\* nothing gives (False, "Step '<step>' not found").
C11_NeverPropagates ==
    /\ step_raised = None
    /\ sx_pc = "returned" =>
         /\ step_did = "threw" =>
              step_return = Some(StepOutput(FALSE,
                                   BuiltinFailed(step_name[1], ExceptionText)))
         /\ step_did = "timeout" =>
              /\ ~step_return[1].success
              /\ step_return[1].output \in {StepTimedOut(step_name[1], timeout),
                                            ScriptTimedOut(timeout)}
         /\ step_did = "unresolved" =>
              step_return = Some(StepOutput(FALSE, StepNotFound(step_name[1])))

\* ------------------------------------------------------------- claim C12

\* C12: once a script step that exceeded its timeout has been reported as
\* failed with the timeout message, its child process is not running.
C12_TimedOutChildTerminated ==
    (sx_pc = "returned" /\ script_path # None /\ step_did = "timeout") =>
        /\ step_return = Some(StepOutput(FALSE, ScriptTimedOut(timeout)))
        /\ proc # "running"

\* ------------------------------------------------------------- claim C13

LastCall(op) == last_call # None /\ last_call[1].op = op

\* C13: every workspaces row and every event_log row references a projects
\* row, and an insert_workspace or insert_event whose project_id is the id
\* of no project raised IntegrityError and left the tables as they were.
C13_ForeignKeys ==
    /\ \A k \in RowIds(tables.workspaces) :
          tables.workspaces[k].project_id \in RowIds(tables.projects)
    /\ \A k \in RowIds(tables.event_log) :
          tables.event_log[k].project_id \in RowIds(tables.projects)
    /\ (/\ LastCall("insert_workspace") \/ LastCall("insert_event")
        /\ last_call[1].project_id \notin RowIds(last_call[1].before.projects))
       => /\ last_call[1].raised = Some("IntegrityError")
          /\ tables = last_call[1].before

\* An insert_event for a project that does not exist was refused on tables
\* that hold a project, a workspace and an event.
C13_Witness ==
    /\ LastCall("insert_event")
    /\ last_call[1].project_id \notin RowIds(tables.projects)
    /\ last_call[1].raised = Some("IntegrityError")
    /\ tables.projects # <<>>
    /\ tables.workspaces # <<>>
    /\ tables.event_log # <<>>

\* ------------------------------------------------------------- claim C14

EventsOf(project_id) ==
    {k \in RowIds(tables.event_log) : tables.event_log[k].project_id = project_id}

\* The rows returned are the rows of the project, each once and as stored.
ReturnedRowsOfProject(c) ==
    /\ c.raised = None
    /\ {c.returned[k].id : k \in DOMAIN c.returned} = EventsOf(c.project_id)
    /\ Len(c.returned) = Cardinality(EventsOf(c.project_id))
    /\ \A k \in DOMAIN c.returned :
          c.returned[k] = Event(c.returned[k].id, tables.event_log[c.returned[k].id])
    /\ EventsOf(c.project_id) = {} => c.returned = <<>>

\* C14 as stated: get_events_by_project_id(p) returns exactly the event_log
\* rows of p, ordered by timestamp strictly descending, and the empty list
\* when p has no events or does not exist.
C14_StrictlyDescending ==
    LastCall("get_events_by_project_id") =>
        /\ ReturnedRowsOfProject(last_call[1])
        /\ \A k \in 1..(Len(last_call[1].returned) - 1) :
              last_call[1].returned[k].timestamp > last_call[1].returned[k + 1].timestamp

\* C14, amended: the order is by timestamp descending, and rows of equal
\* timestamp come in no particular order.
C14_EventsByProject ==
    LastCall("get_events_by_project_id") =>
        /\ ReturnedRowsOfProject(last_call[1])
        /\ \A k \in 1..(Len(last_call[1].returned) - 1) :
              last_call[1].returned[k].timestamp >= last_call[1].returned[k + 1].timestamp

\* Two events of the project were inserted oldest first and came back newest
\* first, while the log also holds an event of another project.
C14_Witness ==
    /\ LastCall("get_events_by_project_id")
    /\ Len(last_call[1].returned) = 2
    /\ last_call[1].returned[1].id > last_call[1].returned[2].id
    /\ last_call[1].returned[1].timestamp > last_call[1].returned[2].timestamp
    /\ \E k \in RowIds(tables.event_log) :
          tables.event_log[k].project_id # last_call[1].project_id

\* ------------------------------------------------------------- claim C15

\* The rows an init run added.
NewWorkspaces ==
    (Len(last_call[1].before.workspaces) + 1)..Len(tables.workspaces)

NewWorkspaceEvents ==
    {k \in (Len(last_call[1].before.event_log) + 1)..Len(tables.event_log) :
        tables.event_log[k].action = "workspace-created"}

\* One workspace "main" on the current branch and one successful
\* workspace-created event that references it.
OneMainWorkspace ==
    /\ Cardinality(NewWorkspaces) = 1
    /\ Cardinality(NewWorkspaceEvents) = 1
    /\ \A w \in NewWorkspaces :
          /\ tables.workspaces[w].name = "main"
          /\ Some(tables.workspaces[w].git_branch) = get_current_branch(repo)
          /\ \A k \in NewWorkspaceEvents :
                /\ tables.event_log[k].status = "success"
                /\ tables.event_log[k].workspace_id = Some(w)

NoWorkspace == NewWorkspaces = {} /\ NewWorkspaceEvents = {}

C16_WorktreeFailureReported ==
    (LastCall("create_workspace") /\ last_call[1].worktree = "failed") =>
        /\ last_call[1].raised = None
        /\ last_call[1].returned = None
        /\ tables = last_call[1].before

\* ------------------------------------------------------------- claim C17

\* Every table exists and holds the rows it held before the insert, as they
\* were.
EarlierRowsUnchanged ==
    /\ DOMAIN sql_tables = TableNames
    /\ \A t \in TableNames :
          /\ Len(last_insert[1].before[t]) <= Len(sql_tables[t])
          /\ \A k \in DOMAIN last_insert[1].before[t] :
                sql_tables[t][k] = last_insert[1].before[t][k]

\* The insert returned a row id and the row read back holds the string.
ReadBackUnchanged ==
    /\ last_insert[1].raised = None
    /\ last_insert[1].lastrowid # None
    /\ fetch(sql_tables, last_insert[1].statement.table,
             last_insert[1].lastrowid[1]) = last_insert[1].value

LoaderCalled(op) == loader_call # None /\ loader_call[1].op = op

Returned18 == {loader_call[1].returned[k] : k \in DOMAIN loader_call[1].returned}

\* C18: discover_commands raises nothing over malformed files and returns
\* every command that a file of the project directory or a template validly
\* defines.
C18_DiscoverReturnsEveryValid ==
    LoaderCalled("discover_commands") =>
        /\ loader_call[1].raised = None
        /\ \A f \in DOMAIN project_commands :
              parse_command_yaml(project_commands[f]) # None
                 => parse_command_yaml(project_commands[f])[1] \in Returned18
        /\ \A f \in DOMAIN template_commands :
              parse_command_yaml(template_commands[f]) # None
                 => parse_command_yaml(template_commands[f])[1] \in Returned18

\* ------------------------------------------------------------- claim C19

\* The definition of a file of the project, None if the file is absent or
\* does not parse.
ProjectDefinition(name, suffix) ==
    IF <<name, suffix>> \in DOMAIN project_commands
    THEN parse_command_yaml(project_commands[<<name, suffix>>])
    ELSE None

TemplateDefinition(name) ==
    IF name \in DOMAIN template_commands
    THEN parse_command_yaml(template_commands[name])
    ELSE None

\* C19: load_command(name) returns the cached definition, else that of
\* <name>.yaml, else that of <name>.yml, else the template's; what it found
\* is then cached under name, and with nothing found it returns None and
\* the cache is as before.
C19_LoadOrder ==
    LoaderCalled("load_command") =>
        LET c == loader_call[1]
            yaml == ProjectDefinition(c.name, ".yaml")
            yml == ProjectDefinition(c.name, ".yml")
            template == TemplateDefinition(c.name)
        IN  /\ c.name \in DOMAIN c.before => c.returned = Some(c.before[c.name])
            /\ c.name \notin DOMAIN c.before =>
                  /\ yaml # None => c.returned = yaml
                  /\ (yaml = None /\ yml # None) => c.returned = yml
                  /\ (yaml = None /\ yml = None) => c.returned = template
            /\ c.returned # None =>
                  /\ c.name \in DOMAIN loader_cache
                  /\ loader_cache[c.name] = c.returned[1]
            /\ c.returned = None => loader_cache = c.before

\* Nothing cached, a <name>.yaml that does not parse, a <name>.yml and a
\* template that differ: the .yml definition is returned and cached.
C19_Witness ==
    /\ LoaderCalled("load_command")
    /\ loader_call[1].before = <<>>
    /\ <<loader_call[1].name, ".yaml">> \in DOMAIN project_commands
    /\ ProjectDefinition(loader_call[1].name, ".yaml") = None
    /\ ProjectDefinition(loader_call[1].name, ".yml") # None
    /\ TemplateDefinition(loader_call[1].name) # None
    /\ TemplateDefinition(loader_call[1].name) # ProjectDefinition(loader_call[1].name, ".yml")
    /\ loader_call[1].returned = ProjectDefinition(loader_call[1].name, ".yml")
    /\ loader_cache[loader_call[1].name] = loader_call[1].returned[1]

\* ------------------------------------------------------------- claim C20

ConcReturned == {i \in Callers : conc_pc[i] = "returned"}

ConcRaised == {i \in Callers : conc_pc[i] = "raised"}

\* The calls that returned have pairwise distinct ids, and each id is that
\* of a committed row with the call's own command.
DistinctIdsOwnRows ==
    /\ \A i, j \in ConcReturned : i # j => conc_ids[i] # conc_ids[j]
    /\ \A i \in ConcReturned :
          /\ conc_ids[i][1] \in DOMAIN conc_events
          /\ conc_events[conc_ids[i][1]].command = caller_command(i)

C21_StateDiscarded ==
    Returned /\ RealRun => session_id[1] \notin DOMAIN step_states

\* ------------------------------------------------------------- claim C22

\* C22: the session id of a run differs from that of every earlier run of
\* the same project, and no run's session directory was there before the
\* run.
C22_FreshSessionDirectory ==
    /\ \A j, k \in DOMAIN sess_runs :
          j < k /\ sess_runs[j].project_path = sess_runs[k].project_path
             => sess_runs[j].session_id # sess_runs[k].session_id
    /\ \A k \in DOMAIN sess_runs : ~sess_runs[k].existed

\* ------------------------------------------------------------- claim C23

\* The last call was a create_workspace that returned a Workspace.
CreateWorkspaceSucceeded ==
    /\ LastCall("create_workspace")
    /\ last_call[1].returned # None
    /\ last_call[1].raised = None

\* C23: a successful create_workspace(name, branch_name, base_branch) has
\* slugify(name) as slug, the slug as branch when branch_name is not given,
\* its worktree under the project's worktree root, exactly one new workspace
\* row, which carries the returned worktree path, and exactly one new event,
\* workspace-created with status success, which references that row.
C23_CreateWorkspace ==
    CreateWorkspaceSucceeded =>
        LET c == last_call[1]
            w == c.returned[1]
            branch == IF c.branch_name # None THEN c.branch_name[1]
                      ELSE slugify(c.name)
            n == Len(c.before.workspaces)
            m == Len(c.before.event_log)
        IN  /\ w.slug = slugify(c.name)
            /\ w.git_branch = branch
            /\ w.path = project_worktree_path \o <<"/", branch>>
            /\ \E t \in repo[1].worktrees : t.path = w.path /\ t.branch = branch
            /\ Len(tables.workspaces) = n + 1
            /\ SubSeq(tables.workspaces, 1, n) = c.before.workspaces
            /\ w.id = n + 1
            /\ tables.workspaces[n + 1].path = w.path
            /\ tables.workspaces[n + 1].slug = w.slug
            /\ tables.workspaces[n + 1].name = c.name
            /\ tables.workspaces[n + 1].git_branch = branch
            /\ tables.workspaces[n + 1].project_id = c.project_id
            /\ Len(tables.event_log) = m + 1
            /\ SubSeq(tables.event_log, 1, m) = c.before.event_log
            /\ tables.event_log[m + 1].action = "workspace-created"
            /\ tables.event_log[m + 1].status = "success"
            /\ tables.event_log[m + 1].workspace_id = Some(w.id)
            /\ tables.event_log[m + 1].project_id = c.project_id
            /\ tables.projects = c.before.projects

\* create_workspace("Feat X") without a branch name succeeded in a database
\* that already held a workspace and an event.
C23_Witness ==
    /\ CreateWorkspaceSucceeded
    /\ last_call[1].name = "Feat X"
    /\ last_call[1].branch_name = None
    /\ last_call[1].returned[1].git_branch = "feat-x"
    /\ last_call[1].before.workspaces # <<>>
    /\ last_call[1].before.event_log # <<>>
    /\ Len(tables.workspaces) = Len(last_call[1].before.workspaces) + 1

\* ------------------------------------------------------------- claim C24

\* C24: run_command_detached(cmd, session_name, working_dir) runs the
\* argument vector tmux -L<server_name> new -d -s session_name cmd, followed
\* by -c working_dir when working_dir is not empty, and returns the
\* completed process of that run.
C24_RunCommandDetached ==
    \A k \in DOMAIN tmux_calls : tmux_calls[k].op = "run_command_detached" =>
        LET c == tmux_calls[k]
            argv == <<"tmux", <<"-L", tmux_server>>, "new", "-d", "-s",
                      c.session_name, c.cmd>>
                    \o (IF c.working_dir # "" THEN <<"-c", c.working_dir>>
                        ELSE <<>>)
            ran == tmux_runs[k]
        IN  /\ ran = PyList(argv)
            /\ c.raised \in {None, Some("FileNotFoundError")}
            /\ c.raised = None =>
                  c.returned # None /\ c.returned[1].args = argv

\* ------------------------------------------------------------- claim C25

\* C25: list_events(workspace=w) with w.id set returns exactly the events
\* whose workspace_id is w.id, most recent first.
C25_ListEventsOfWorkspace ==
    /\ LastCall("list_events")
    /\ last_call[1].workspace # None
    /\ last_call[1].workspace[1].id # None
    => /\ last_call[1].raised = None
       /\ last_call[1].returned # None
       /\ LET rows == last_call[1].returned[1]
              w == last_call[1].workspace[1].id
          IN  /\ {rows[k].id : k \in DOMAIN rows}
                   = {e \in RowIds(tables.event_log) :
                         tables.event_log[e].workspace_id = w}
              /\ \A j, k \in DOMAIN rows :
                    j < k => /\ rows[j].id # rows[k].id
                             /\ rows[j].timestamp >= rows[k].timestamp

\* ------------------------------------------------------------- claim C26

\* C26: every variable of the command's environment map is in the
\* environment of a spawned script step, with its declared value.
C26_DeclaredEnvironmentReachesScript ==
    env_pc = "spawned" =>
        \A n \in DOMAIN env_declared :
            /\ n \in DOMAIN env_child[1]
            /\ env_child[1][n] = env_declared[n]

\* ------------------------------------------------------------- claim C27

\* The steps the tracker holds as running for the run's session.
RunningSteps ==
    IF session_id # None /\ session_id[1] \in DOMAIN step_states
    THEN {s \in DOMAIN step_states[session_id[1]] :
             step_states[session_id[1]][s] = "running"}
    ELSE {}

TrackerStatus(step) == get_step_status(step_states, session_id[1], step)

\* The step loop is about to begin, or has begun, occurrence step_index.
InLoop == RealRun /\ command # None /\ pc \in {"begin", "exec", "finish"}

\* At most one step is running, the occurrences begun are the first ones of
\* the declared order, and the one begun last is the one running.
OneRunningInOrder ==
    /\ Cardinality(RunningSteps) <= 1
    /\ InLoop =>
          /\ step_index \in DOMAIN DeclaredOrder
          /\ StepsOf(RunCalls)
               = SubSeqOrEmpty(DeclaredOrder, 1,
                               IF pc = "finish" THEN step_index ELSE step_index - 1)
          /\ pc = "begin" => RunningSteps = {}
          /\ pc = "exec" => RunningSteps = {DeclaredOrder[step_index]}

\* The last occurrence of the built-in cleanup step before occurrence k, or 0.
LastCleanupBefore(k) ==
    LET cs == {c \in 1..(k - 1) : DeclaredOrder[c] = "cleanup"}
    IN  IF cs = {} THEN 0 ELSE CHOOSE c \in cs : \A d \in cs : d <= c

\* C27 as stated: when a step is begun, the tracker holds every earlier
\* occurrence as completed (with OneRunningInOrder).
C27_EarlierMarkedCompleted ==
    /\ OneRunningInOrder
    /\ InLoop /\ pc = "begin" =>
          \A j \in 1..(step_index - 1) :
              TrackerStatus(DeclaredOrder[j]) = Some("completed")

\* C27: at most one step is running, the occurrences begun are a prefix of
\* the declared order, and when a step is begun the tracker holds as
\* completed every earlier occurrence whose name occurred after the last
\* built-in cleanup step, and holds nothing for the others.
C27_SequentialTracker ==
    /\ OneRunningInOrder
    /\ InLoop /\ pc = "begin" =>
          \A j \in 1..(step_index - 1) :
              TrackerStatus(DeclaredOrder[j])
                = IF \E i \in (LastCleanupBefore(step_index) + 1)..(step_index - 1) :
                        DeclaredOrder[i] = DeclaredOrder[j]
                  THEN Some("completed")
                  ELSE None

\* The third occurrence is about to begin after two occurrences of one name.
C27_Witness ==
    /\ InLoop
    /\ pc = "begin"
    /\ step_index = 3
    /\ DeclaredOrder[1] = DeclaredOrder[2]
    /\ "cleanup" \notin Range(DeclaredOrder)
    /\ TrackerStatus(DeclaredOrder[1]) = Some("completed")

\* ------------------------------------------------------------- claim C28

\* C28: after any sequence of discover_commands and load_command calls,
\* load_command(name) returns what the uncached lookup (<name>.yaml, then
\* <name>.yml, then the template) returns.
C28_CacheCoherent ==
    LoaderCalled("load_command") =>
        loader_call[1].returned
          = load_from_files(project_commands, template_commands,
                            loader_call[1].name)

\* ------------------------------------------------------------- claim C29

\* The workspace-created events that reference workspace w.
CreatedEventsOf(w) ==
    {e \in RowIds(tables.event_log) :
        /\ tables.event_log[e].action = "workspace-created"
        /\ tables.event_log[e].workspace_id = Some(w)}

\* C29: after any sequence of init and create_workspace operations, also
\* ones in which a database write failed, every workspace row has exactly
\* one workspace-created event that references it.
C29_WorkspaceHasCreatedEvent ==
    \A w \in RowIds(tables.workspaces) : Cardinality(CreatedEventsOf(w)) = 1

\* ------------------------------------------------------------- claim C30

\* C30: the git_origin_branch that a successful create_workspace stores in
\* the workspace row is the base branch from which the workspace's Git
\* worktree was created, also when the caller gives no base_branch.
C30_OriginIsWorktreeBase ==
    CreateWorkspaceSucceeded =>
        LET w == tables.workspaces[last_call[1].returned[1].id]
        IN  \A t \in repo[1].worktrees :
                t.path = w.path => w.git_origin_branch = <<t.base>>

====
